---------------------------- MODULE Spec2Model ----------------------------
(***************************************************************************)
(* Model of veriphix: the client side of a verifiable blind delegated      *)
(* measurement-based computation (veriphix/client.py) and the trappified   *)
(* canvases of its test rounds (veriphix/trappifiedCanvas.py).             *)
(*                                                                         *)
(* Angles are integers in units of pi/4 (the unit of the theta secret).    *)
(* Quantum states are unnormalised state vectors whose amplitudes lie in   *)
(* Z[w], w = exp(i*pi/4): an amplitude <<a,b,c,d>> is a + b*w + c*w^2 +    *)
(* d*w^3 with w^4 = -1.  Two vectors describe the same state iff they are  *)
(* proportional.                                                           *)
(***************************************************************************)
EXTENDS Integers, Sequences, FiniteSets, TLC

(***************************************************************************)
(* Arithmetic in Z[w].                                                     *)
(***************************************************************************)
ZZero == <<0, 0, 0, 0>>
ZOne  == <<1, 0, 0, 0>>

ZAdd(x, y) == <<x[1] + y[1], x[2] + y[2], x[3] + y[3], x[4] + y[4]>>

ZNeg(x) == <<0 - x[1], 0 - x[2], 0 - x[3], 0 - x[4]>>

ZMul(x, y) ==
    << x[1]*y[1] - x[2]*y[4] - x[3]*y[3] - x[4]*y[2],
       x[1]*y[2] + x[2]*y[1] - x[3]*y[4] - x[4]*y[3],
       x[1]*y[3] + x[2]*y[2] + x[3]*y[1] - x[4]*y[4],
       x[1]*y[4] + x[2]*y[3] + x[3]*y[2] + x[4]*y[1] >>

\* complex conjugate: conj(w) = -w^3, conj(w^2) = -w^2, conj(w^3) = -w
ZConj(x) == <<x[1], 0 - x[4], 0 - x[3], 0 - x[2]>>

\* w^k = exp(i*k*pi/4), for any integer k
ZW(k) ==
    LET m == k % 8
        u == [j \in 1..4 |-> IF j = (m % 4) + 1 THEN 1 ELSE 0]
    IN  IF m < 4 THEN <<u[1], u[2], u[3], u[4]>>
        ELSE <<0 - u[1], 0 - u[2], 0 - u[3], 0 - u[4]>>

\* sqrt(2) = w + conj(w) = w - w^3
ZSqrt2 == <<0, 1, 0, -1>>

Pow2(n) == IF n = 0 THEN 1 ELSE IF n = 1 THEN 2 ELSE IF n = 2 THEN 4
           ELSE IF n = 3 THEN 8 ELSE IF n = 4 THEN 16 ELSE 32

Xor(x, y) == (x + y) % 2

RECURSIVE SumOver(_, _)
\* sum(f[j] for j in S), the Python sum over a domain
SumOver(f, S) ==
    IF S = {} THEN 0
    ELSE LET j == CHOOSE k \in S : TRUE IN f[j] + SumOver(f, S \ {j})

SeqToSet(s) == {s[i] : i \in 1..Len(s)}

IndexOf(s, x) == CHOOSE i \in 1..Len(s) : s[i] = x

RemoveAt(s, p) == [i \in 1..(Len(s) - 1) |-> IF i < p THEN s[i] ELSE s[i + 1]]


(***************************************************************************)
(* The executor's backend (graphix Backend, the capability of spec section *)
(* 6): a register `nodes` and a state vector `psi` over it.  Bit p-1 of an *)
(* index of psi is the basis value of nodes[p].                            *)
(***************************************************************************)
Bit(i, p) == (i \div Pow2(p - 1)) % 2

WithBit(i, p, b) == i - Bit(i, p) * Pow2(p - 1) + b * Pow2(p - 1)

InsertBit(i, p, b) ==
    (i % Pow2(p - 1)) + b * Pow2(p - 1) + (i \div Pow2(p - 1)) * Pow2(p)

\* the function f with every value computed (TLC otherwise recomputes the
\* values of a function expression at each application)
Evaluated(f) == f @@ <<>>

EmptyBackend == [nodes |-> <<>>, psi |-> Evaluated([i \in {0} |-> ZOne])]

\* single-qubit states (graphix BasicStates), as <<amplitude of 0, amplitude of 1>>
PLUS    == <<ZOne, ZOne>>
MINUS   == <<ZOne, ZNeg(ZOne)>>
ZERO    == <<ZOne, ZZero>>
ONE     == <<ZZero, ZOne>>
PLUS_I  == <<ZOne, ZW(2)>>
MINUS_I == <<ZOne, ZW(6)>>

\* single-qubit operators, as <<row 0, row 1>>
OpsX == << <<ZZero, ZOne>>, <<ZOne, ZZero>> >>
OpsZ == << <<ZOne, ZZero>>, <<ZZero, ZNeg(ZOne)>> >>

\* backend.add_nodes for one node prepared in the single-qubit state st
AddNode(bk, node, st) ==
    LET n == Len(bk.nodes) IN
    [nodes |-> Append(bk.nodes, node),
     psi   |-> Evaluated([i \in 0..(Pow2(n + 1) - 1) |->
                   ZMul(bk.psi[i % Pow2(n)], st[(i \div Pow2(n)) + 1])])]

RECURSIVE add_nodes(_, _, _)
\* backend.add_nodes(nodes, data) with one single-qubit state per node
add_nodes(bk, nodes, data) ==
    IF nodes = <<>> THEN bk
    ELSE add_nodes(AddNode(bk, Head(nodes), Head(data)), Tail(nodes), Tail(data))

\* backend.add_nodes(nodes, data) with data a whole state vector over nodes
add_state(bk, nodes, psi2) ==
    LET n == Len(bk.nodes)
        m == Len(nodes)
    IN  [nodes |-> bk.nodes \o nodes,
         psi   |-> Evaluated([i \in 0..(Pow2(n + m) - 1) |->
                       ZMul(bk.psi[i % Pow2(n)], psi2[i \div Pow2(n)])])]

\* backend.apply_single(node, op)
apply_single(bk, node, op) ==
    LET p == IndexOf(bk.nodes, node) IN
    [bk EXCEPT !.psi = Evaluated([i \in DOMAIN bk.psi |->
        ZAdd(ZMul(op[Bit(i, p) + 1][1], bk.psi[WithBit(i, p, 0)]),
             ZMul(op[Bit(i, p) + 1][2], bk.psi[WithBit(i, p, 1)]))])]

\* backend.entangle_nodes((i, j)): controlled-Z
entangle_nodes(bk, e) ==
    LET p == IndexOf(bk.nodes, e[1])
        q == IndexOf(bk.nodes, e[2])
    IN  [bk EXCEPT !.psi = Evaluated([i \in DOMAIN bk.psi |->
            IF Bit(i, p) = 1 /\ Bit(i, q) = 1 THEN ZNeg(bk.psi[i]) ELSE bk.psi[i]])]

\* (cos, sin) of the half angle k*pi/8 up to a common real factor: (1, tan),
\* and (0, 1) at pi/2
HalfAngle(k) ==
    LET m == k % 8 IN
    CASE m = 0 -> <<ZOne, ZZero>>
      [] m = 1 -> <<ZOne, ZAdd(ZSqrt2, ZNeg(ZOne))>>
      [] m = 2 -> <<ZOne, ZOne>>
      [] m = 3 -> <<ZOne, ZAdd(ZSqrt2, ZOne)>>
      [] m = 4 -> <<ZZero, ZOne>>
      [] m = 5 -> <<ZOne, ZNeg(ZAdd(ZSqrt2, ZOne))>>
      [] m = 6 -> <<ZOne, ZNeg(ZOne)>>
      [] m = 7 -> <<ZOne, ZNeg(ZAdd(ZSqrt2, ZNeg(ZOne)))>>

\* the state measured for outcome 0 in `plane` at `angle` (graphix Plane.polar):
\* XY: |0> + e^{i angle}|1>;  YZ: cos|0> + i sin|1>;  XZ: cos|0> + sin|1>
PolarState(plane, angle) ==
    CASE plane = "XY" -> <<ZOne, ZW(angle)>>
      [] plane = "YZ" -> <<HalfAngle(angle)[1], ZMul(ZW(2), HalfAngle(angle)[2])>>
      [] plane = "XZ" -> <<HalfAngle(angle)[1], HalfAngle(angle)[2]>>

\* the state the register is projected on for `outcome`: outcome 1 is the
\* state orthogonal to PolarState
MeasuredState(plane, angle, outcome) ==
    LET v == PolarState(plane, angle) IN
    IF outcome = 0 THEN v ELSE <<ZConj(v[2]), ZNeg(ZConj(v[1]))>>

\* backend.measure(node, Measurement(plane, angle)) with result `outcome`:
\* the node is projected and leaves the register
measure(bk, node, plane, angle, outcome) ==
    LET p == IndexOf(bk.nodes, node)
        n == Len(bk.nodes)
        v == MeasuredState(plane, angle, outcome)
    IN  [nodes |-> RemoveAt(bk.nodes, p),
         psi   |-> Evaluated([i \in 0..(Pow2(n - 1) - 1) |->
                      ZAdd(ZMul(ZConj(v[1]), bk.psi[InsertBit(i, p, 0)]),
                           ZMul(ZConj(v[2]), bk.psi[InsertBit(i, p, 1)]))])]

IsZeroVector(psi) == \A i \in DOMAIN psi : psi[i] = ZZero

\* an honest noiseless executor reports only outcomes of non-zero probability
PossibleOutcomes(bk, node, plane, angle) ==
    {b \in {0, 1} : ~IsZeroVector(measure(bk, node, plane, angle, b).psi)}

\* the amplitude of the basis state that gives nodes[k] the value bits[k]
AmplitudeAt(bk, nodes, bits) ==
    LET idx[k \in 0..Len(nodes)] ==
            IF k = 0 THEN 0
            ELSE idx[k - 1] + bits[k] * Pow2(IndexOf(bk.nodes, nodes[k]) - 1)
    IN  bk.psi[idx[Len(nodes)]]

\* two registers hold the same state of `nodes` (up to a global factor)
SameState(bk1, bk2, nodes) ==
    LET B == [1..Len(nodes) -> {0, 1}] IN
    /\ SeqToSet(bk1.nodes) = SeqToSet(nodes)
    /\ SeqToSet(bk2.nodes) = SeqToSet(nodes)
    /\ ~IsZeroVector(bk1.psi)
    /\ ~IsZeroVector(bk2.psi)
    /\ \A x \in B : \A y \in B :
          ZMul(AmplitudeAt(bk1, nodes, x), AmplitudeAt(bk2, nodes, y))
            = ZMul(AmplitudeAt(bk1, nodes, y), AmplitudeAt(bk2, nodes, x))

(***************************************************************************)
(* Patterns (graphix Pattern): input nodes and a command sequence.         *)
(* Measurement angles are in units of pi/4.                                *)
(***************************************************************************)
N(node) == [kind |-> "N", node |-> node]

E(i, j) == [kind |-> "E", nodes |-> <<i, j>>]

M(node, plane, angle, s_domain, t_domain) ==
    [kind |-> "M", node |-> node, plane |-> plane, angle |-> angle,
     s_domain |-> s_domain, t_domain |-> t_domain]

X(node, domain) == [kind |-> "X", node |-> node, domain |-> domain]

Z(node, domain) == [kind |-> "Z", node |-> node, domain |-> domain]

\* graphix.command.BaseM(node=...): a measurement that names its node only
BaseM(node) == [kind |-> "M", node |-> node]

\* graphix.command.M(node=...) with the YZ plane for default
DefaultM_YZ(node) == M(node, "YZ", 0, {}, {})

\* graphix.command.M(node=...): plane XY, angle 0, empty domains
DefaultM(node) == M(node, "XY", 0, {}, {})

Pattern(input_nodes, seq) == [input_nodes |-> input_nodes, seq |-> seq]

RECURSIVE SelectCmds(_, _)
SelectCmds(seq, kinds) ==
    IF seq = <<>> THEN <<>>
    ELSE IF Head(seq).kind \in kinds
         THEN <<Head(seq)>> \o SelectCmds(Tail(seq), kinds)
         ELSE SelectCmds(Tail(seq), kinds)

\* pattern.get_measurement_commands()
get_measurement_commands(pattern) == SelectCmds(pattern.seq, {"M"})

\* pattern.correction_commands()
correction_commands(pattern) == SelectCmds(pattern.seq, {"X", "Z"})

RECURSIVE NodesAfter(_, _)
\* the nodes alive after the commands: prepared and not measured, in order
NodesAfter(nodes, seq) ==
    IF seq = <<>> THEN nodes
    ELSE LET c == Head(seq) IN
         NodesAfter(
            CASE c.kind = "N" -> Append(nodes, c.node)
              [] c.kind = "M" -> SelectSeq(nodes, LAMBDA n : n # c.node)
              [] OTHER -> nodes,
            Tail(seq))

\* pattern.output_nodes
output_nodes_of(pattern) == NodesAfter(pattern.input_nodes, pattern.seq)

RECURSIVE GraphNodes(_, _)
GraphNodes(nodes, seq) ==
    IF seq = <<>> THEN nodes
    ELSE GraphNodes(IF Head(seq).kind = "N" THEN Append(nodes, Head(seq).node)
                    ELSE nodes, Tail(seq))

RECURSIVE GraphEdges(_)
GraphEdges(seq) ==
    IF seq = <<>> THEN <<>>
    ELSE IF Head(seq).kind = "E"
         THEN <<Head(seq).nodes>> \o GraphEdges(Tail(seq))
         ELSE GraphEdges(Tail(seq))

\* pattern.get_graph(): (node list, edge list)
get_graph(pattern) ==
    <<GraphNodes(pattern.input_nodes, pattern.seq), GraphEdges(pattern.seq)>>

(***************************************************************************)
(* veriphix/client.py: module-level functions.                             *)
(***************************************************************************)
\* dict.get(key, default)
Get(d, key, default) == IF key \in DOMAIN d THEN d[key] ELSE default

EmptyDict == <<>>

\* np.random.randint(lo, hi): an integer of lo..hi-1
RandInt(lo, hi) == lo..(hi - 1)

ThetaRange == 8

\* Secrets(r, a, theta); a Client built with secrets=None holds NoSecrets
Secrets(r, a, theta) == <<[r |-> r, a |-> a, theta |-> theta]>>

NoSecrets == <<>>

RECURSIVE a_N_loop_one_direction(_, _, _, _)
\* the inner loop of from_secrets looking up (i, j) only
a_N_loop_one_direction(i, js, edge_list, a) ==
    IF js = <<>> THEN 0
    ELSE LET rest == a_N_loop_one_direction(i, Tail(js), edge_list, a)
         IN  IF <<i, Head(js)>> \in SeqToSet(edge_list)
             THEN Xor(rest, a[Head(js)])
             ELSE rest

RECURSIVE a_N_loop(_, _, _, _)
\* the inner loop of from_secrets: for j in node_list, a_N_loop ^= a[j] when
\* (i, j) or (j, i) is in edge_list
a_N_loop(i, js, edge_list, a) ==
    IF js = <<>> THEN 0
    ELSE LET j == Head(js)
             rest == a_N_loop(i, Tail(js), edge_list, a)
         IN  IF <<i, j>> \in SeqToSet(edge_list) \/ <<j, i>> \in SeqToSet(edge_list)
             THEN Xor(rest, a[j])
             ELSE rest

\* from_secrets drawing a on the input nodes as well
from_secrets_a_on_inputs(secrets, graph, input_nodes, output_nodes) ==
    LET nodes == SeqToSet(graph[1])
        outs == SeqToSet(output_nodes)
        Zero(n) == IF n \in outs THEN {0} ELSE {}
    IN  {[r |-> r,
          a |-> [a |-> a,
                 a_N |-> IF secrets.a
                         THEN [i \in nodes |-> a_N_loop(i, graph[1], graph[2], a)]
                         ELSE EmptyDict],
          theta |-> theta] :
            r \in IF secrets.r
                  THEN {f \in [nodes -> RandInt(0, 2)] : \A n \in outs : f[n] = 0}
                  ELSE {EmptyDict},
            a \in IF secrets.a THEN [nodes -> RandInt(0, 2)] ELSE {EmptyDict},
            theta \in IF secrets.theta
                      THEN {f \in [nodes -> RandInt(0, ThetaRange)] :
                               \A n \in outs : f[n] = 0}
                      ELSE {EmptyDict}}

\* from_secrets drawing theta whatever the flags say
from_secrets_flags_ignored(secrets, graph, input_nodes, output_nodes) ==
    {[r |-> EmptyDict, a |-> [a |-> EmptyDict, a_N |-> EmptyDict], theta |-> theta] :
        theta \in {f \in [SeqToSet(graph[1]) -> RandInt(0, ThetaRange)] :
                      \A n \in SeqToSet(output_nodes) : f[n] = 0}}

\* SecretDatas.from_secrets: the set of SecretDatas the draws can produce
from_secrets(secrets, graph, input_nodes, output_nodes) ==
    LET node_list == graph[1]
        edge_list == graph[2]
        nodes == SeqToSet(node_list)
        rs == IF secrets.r
              THEN {f \in [nodes -> RandInt(0, 2)] :
                       \A n \in nodes : n \in SeqToSet(output_nodes) => f[n] = 0}
              ELSE {EmptyDict}
        thetas == IF secrets.theta
                  THEN {f \in [nodes -> RandInt(0, ThetaRange)] :
                           \A n \in nodes : n \in SeqToSet(output_nodes) => f[n] = 0}
                  ELSE {EmptyDict}
        as == IF secrets.a
              THEN {f \in [nodes -> RandInt(0, 2)] :
                       \A n \in nodes : n \in SeqToSet(input_nodes) => f[n] = 0}
              ELSE {EmptyDict}
        a_N(a) == IF secrets.a
                  THEN [i \in nodes |-> a_N_loop(i, node_list, edge_list, a)]
                  ELSE EmptyDict
    IN  {[r |-> r, a |-> [a |-> a, a_N |-> a_N(a)], theta |-> theta] :
            r \in rs, a \in as, theta \in thetas}

RECURSIVE ByproductFold(_, _, _)
ByproductFold(db, cmds, outs) ==
    IF cmds = <<>> THEN db
    ELSE LET cmd == Head(cmds)
             db1 == IF cmd.node \in outs
                    THEN IF cmd.kind = "Z"
                         THEN [db EXCEPT ![cmd.node].z_domain = cmd.domain]
                         ELSE [db EXCEPT ![cmd.node].x_domain = cmd.domain]
                    ELSE db
         IN  ByproductFold(db1, Tail(cmds), outs)

\* get_byproduct_db(pattern): output node -> ByProduct(z_domain, x_domain)
get_byproduct_db(pattern) ==
    LET outs == SeqToSet(output_nodes_of(pattern)) IN
    ByproductFold([n \in outs |-> [z_domain |-> {}, x_domain |-> {}]],
                  correction_commands(pattern), outs)

RECURSIVE RemoveFlowSeq(_)
RemoveFlowSeq(seq) ==
    IF seq = <<>> THEN <<>>
    ELSE LET cmd == Head(seq) IN
         IF cmd.kind \in {"X", "Z"} THEN RemoveFlowSeq(Tail(seq))
         ELSE IF cmd.kind = "M"
              THEN <<BaseM(cmd.node)>> \o RemoveFlowSeq(Tail(seq))
              ELSE <<cmd>> \o RemoveFlowSeq(Tail(seq))

\* remove_flow leaving the corrections in
remove_flow_keeping_corrections(pattern) ==
    Pattern(pattern.input_nodes,
            [i \in DOMAIN pattern.seq |->
                IF pattern.seq[i].kind = "M" THEN BaseM(pattern.seq[i].node)
                ELSE pattern.seq[i]])

\* remove_flow(pattern)
remove_flow(pattern) == Pattern(pattern.input_nodes, RemoveFlowSeq(pattern.seq))

\* prepared_nodes_as_input_nodes(pattern)
prepared_nodes_as_input_nodes(pattern) ==
    Pattern(GraphNodes(pattern.input_nodes, pattern.seq),
            SelectSeq(pattern.seq, LAMBDA cmd : cmd.kind # "N"))

\* Client.__init__: self.clean_pattern
clean_pattern_of(pattern) == prepared_nodes_as_input_nodes(remove_flow(pattern))

\* Client.__init__: self.measurement_db
measurement_db_of(pattern) ==
    LET ms == get_measurement_commands(pattern) IN
    [n \in {ms[i].node : i \in 1..Len(ms)} |->
        ms[CHOOSE i \in 1..Len(ms) :
              ms[i].node = n /\ \A k \in (i + 1)..Len(ms) : ms[k].node # n]]

(***************************************************************************)
(* veriphix/trappifiedCanvas.py.  A graph (networkx Graph) is a record of  *)
(* its node list, in insertion order, and its adjacency.  A Pauli string   *)
(* (stim.PauliString) is a sign and one letter per qubit index 0..n-1.     *)
(***************************************************************************)
RECURSIVE Dedup(_)
\* a sequence without its repetitions, first occurrences kept
Dedup(seq) ==
    IF seq = <<>> THEN <<>>
    ELSE LET init == Dedup(SubSeq(seq, 1, Len(seq) - 1))
             last == seq[Len(seq)]
         IN  IF last \in SeqToSet(init) THEN init ELSE Append(init, last)

RECURSIVE Flatten(_)
Flatten(pairs) ==
    IF pairs = <<>> THEN <<>>
    ELSE <<Head(pairs)[1], Head(pairs)[2]>> \o Flatten(Tail(pairs))

RECURSIVE SortedSeq(_)
\* sorted(S) for a set of integers
SortedSeq(S) ==
    IF S = {} THEN <<>>
    ELSE LET m == CHOOSE x \in S : \A y \in S : x <= y
         IN  <<m>> \o SortedSeq(S \ {m})

\* nx.Graph(); graph.add_edges_from(edges); graph.add_nodes_from(nodes)
NxGraph(nodes, edges) ==
    LET order == Dedup(Flatten(edges) \o nodes) IN
    [nodes |-> order,
     adj   |-> [n \in SeqToSet(order) |->
                  {m \in SeqToSet(order) :
                      <<n, m>> \in SeqToSet(edges) \/ <<m, n>> \in SeqToSet(edges)}]]

\* graph.neighbors(node)
neighbors(graph, node) == graph.adj[node]

PauliIdentity(n) == [sign |-> 1, paulis |-> [q \in 0..(n - 1) |-> "I"]]

\* stabilizer.pauli_indices(letters)
pauli_indices(stabilizer, letters) ==
    {q \in DOMAIN stabilizer.paulis : stabilizer.paulis[q] \in letters}

\* common_eigenstate asking for the same letter on both sides, identity excluded
common_eigenstate_without_identity(stabilizer_1, stabilizer_2) ==
    /\ pauli_indices(stabilizer_1, {"X"}) \subseteq pauli_indices(stabilizer_2, {"X"})
    /\ pauli_indices(stabilizer_1, {"Y"}) \subseteq pauli_indices(stabilizer_2, {"Y"})
    /\ pauli_indices(stabilizer_1, {"Z"}) \subseteq pauli_indices(stabilizer_2, {"Z"})

\* TrappifiedCanvas.common_eigenstate
common_eigenstate(stabilizer_1, stabilizer_2) ==
    LET match_X == pauli_indices(stabilizer_1, {"X"}) \subseteq
                     (pauli_indices(stabilizer_2, {"X"}) \cup pauli_indices(stabilizer_2, {"I"}))
        match_Y == pauli_indices(stabilizer_1, {"Y"}) \subseteq
                     (pauli_indices(stabilizer_2, {"Y"}) \cup pauli_indices(stabilizer_2, {"I"}))
        match_Z == pauli_indices(stabilizer_1, {"Z"}) \subseteq
                     (pauli_indices(stabilizer_2, {"Z"}) \cup pauli_indices(stabilizer_2, {"I"}))
    IN  match_X /\ match_Y /\ match_Z

\* merge keeping the letters of the first stabilizer only
merge_first_only(stabilizer_1, stabilizer_2) ==
    [sign   |-> stabilizer_2.sign * stabilizer_1.sign,
     paulis |-> stabilizer_1.paulis]

\* TrappifiedCanvas.merge
merge(stabilizer_1, stabilizer_2) ==
    [sign   |-> stabilizer_2.sign * stabilizer_1.sign,
     paulis |-> [q \in DOMAIN stabilizer_1.paulis |->
                   IF q \in pauli_indices(stabilizer_2, {"X", "Y", "Z"})
                   THEN stabilizer_2.paulis[q]
                   ELSE stabilizer_1.paulis[q]]]

\* TrappifiedCanvas.fill_canonical_stabilizer
fill_canonical_stabilizer(graph, chain, node) ==
    [chain EXCEPT !.paulis =
        [q \in DOMAIN chain.paulis |->
            IF q \in neighbors(graph, node) THEN "Z"
            ELSE IF q = node THEN "X"
            ELSE chain.paulis[q]]]

RECURSIVE FillAll(_, _, _)
FillAll(graph, chain, nodes) ==
    IF nodes = <<>> THEN chain
    ELSE FillAll(graph, fill_canonical_stabilizer(graph, chain, Head(nodes)), Tail(nodes))

\* TrappifiedCanvas.compute_trap_stabilizer
compute_trap_stabilizer(graph, trap) ==
    FillAll(graph, PauliIdentity(Len(graph.nodes)), SortedSeq(trap))

RECURSIVE MergeLoopI(_, _, _)
RECURSIVE MergeLoopJ(_, _, _, _)
\* merge_pauli_list, `while i < len(pauli_list) - 1` at index i (0-based)
MergeLoopI(pauli_list, i, merged) ==
    IF i < Len(pauli_list) - 1
    THEN MergeLoopJ(pauli_list, i, i + 1, merged)
    ELSE IF merged
         THEN MergeLoopI(pauli_list, 0, FALSE)
         ELSE [status |-> "returned", value |-> pauli_list[1]]

\* merge_pauli_list, `while j < len(pauli_list)` at index j (0-based).  When
\* the loop over j ends without a merge while `merged` is already True, i is
\* not advanced and the loop over i repeats the same state for ever.
MergeLoopJ(pauli_list, i, j, merged) ==
    IF j < Len(pauli_list)
    THEN IF common_eigenstate(pauli_list[i + 1], pauli_list[j + 1])
         THEN MergeLoopI(
                 RemoveAt([pauli_list EXCEPT
                              ![i + 1] = merge(pauli_list[i + 1], pauli_list[j + 1])],
                          j + 1),
                 i, TRUE)
         ELSE MergeLoopJ(pauli_list, i, j + 1, merged)
    ELSE IF ~merged
         THEN MergeLoopI(pauli_list, i + 1, merged)
         ELSE [status |-> "diverges", value |-> pauli_list[1]]

\* TrappifiedCanvas.merge_pauli_list
merge_pauli_list(pauli_list) == MergeLoopI(pauli_list, 0, FALSE)

RECURSIVE TrapQubitsOf(_)
\* TrappifiedCanvas.trap_qubits
TrapQubitsOf(traps_list) ==
    IF traps_list = <<>> THEN <<>>
    ELSE SortedSeq(Head(traps_list)) \o TrapQubitsOf(Tail(traps_list))

\* TrappifiedCanvas.generate_coins_dummies: the coin maps the draws can produce
generate_coins_dummies(graph, traps_list) ==
    {coins \in [SeqToSet(graph.nodes) -> RandInt(0, 2)] :
        \A node \in SeqToSet(TrapQubitsOf(traps_list)) : coins[node] = 0}

RECURSIVE CoinsTrapFold(_, _, _)
CoinsTrapFold(graph, coins, nodes) ==
    IF nodes = <<>> THEN coins
    ELSE CoinsTrapFold(graph,
            [coins EXCEPT ![Head(nodes)] =
                SumOver(coins, neighbors(graph, Head(nodes))) % 2],
            Tail(nodes))

\* generate_coins_trap_qubits leaving the coins of the trap qubits at 0
generate_coins_trap_qubits_skipped(graph, traps_list, coins) == coins

\* TrappifiedCanvas.generate_coins_trap_qubits
generate_coins_trap_qubits(graph, traps_list, coins) ==
    CoinsTrapFold(graph, coins, TrapQubitsOf(traps_list))

\* graphix Pauli.get_eigenstate(eigenvalue) of the letter's operator
get_eigenstate(letter, eigenvalue) ==
    CASE letter = "X" -> IF eigenvalue = 0 THEN PLUS ELSE MINUS
      [] letter = "Y" -> IF eigenvalue = 0 THEN PLUS_I ELSE MINUS_I
      [] letter = "Z" -> IF eigenvalue = 0 THEN ZERO ELSE ONE
      [] letter = "I" -> PLUS

\* TrappifiedCanvas.generate_eigenstate
generate_eigenstate(graph, stabilizer, coins) ==
    LET order == SortedSeq(SeqToSet(graph.nodes)) IN
    [k \in 1..Len(order) |->
        get_eigenstate(stabilizer.paulis[order[k]], coins[order[k]])]

\* TrappifiedCanvas.__init__: the canvases the coin draws can produce
TrappifiedCanvas(graph, traps_list) ==
    LET trap_stabilizers ==
            [k \in 1..Len(traps_list) |-> compute_trap_stabilizer(graph, traps_list[k])]
        stabilizer == merge_pauli_list(trap_stabilizers).value
    IN  {[traps_list |-> traps_list,
          stabilizer |-> stabilizer,
          coins      |-> generate_coins_trap_qubits(graph, traps_list, dummies_coins),
          states     |-> generate_eigenstate(graph, stabilizer,
                            generate_coins_trap_qubits(graph, traps_list, dummies_coins))] :
            dummies_coins \in generate_coins_dummies(graph, traps_list)}

(***************************************************************************)
(* Client.create_test_runs: greedy colouring (networkx greedy_color with   *)
(* strategy largest_first), one trappified canvas per colour.              *)
(***************************************************************************)
Degree(graph, node) == Cardinality(graph.adj[node])

RECURSIVE LargestFirst(_, _)
\* sorted(G, key=G.degree, reverse=True): a stable sort
LargestFirst(graph, nodes) ==
    IF nodes = <<>> THEN <<>>
    ELSE LET p == CHOOSE i \in 1..Len(nodes) :
                    /\ \A k \in 1..Len(nodes) :
                          Degree(graph, nodes[k]) <= Degree(graph, nodes[i])
                    /\ \A k \in 1..(i - 1) :
                          Degree(graph, nodes[k]) < Degree(graph, nodes[i])
         IN  <<nodes[p]>> \o LargestFirst(graph, RemoveAt(nodes, p))

RECURSIVE GreedyFold(_, _, _)
GreedyFold(graph, todo, coloring) ==
    IF todo = <<>> THEN coloring
    ELSE LET u == Head(todo)
             neighbour_colors ==
                 {coloring[v] : v \in (graph.adj[u] \cap DOMAIN coloring)}
             color == CHOOSE c \in 0..Len(graph.nodes) :
                         /\ c \notin neighbour_colors
                         /\ \A d \in 0..(c - 1) : d \in neighbour_colors
         IN  GreedyFold(graph, Tail(todo),
                        [v \in DOMAIN coloring \cup {u} |->
                            IF v = u THEN color ELSE coloring[v]])

\* greedy_color giving every node the colour 0
greedy_color_single(graph) == [n \in SeqToSet(graph.nodes) |-> 0]

\* nx.coloring.greedy_color(graph, strategy="largest_first")
greedy_color(graph) == GreedyFold(graph, LargestFirst(graph, graph.nodes), EmptyDict)

\* create_test_runs: the traps_list of each colour, colours in ascending order
TrapsByColor(graph) ==
    LET coloring == greedy_color(graph)
        colors == SortedSeq({coloring[n] : n \in DOMAIN coloring})
        nodes_by_color(c) == SortedSeq({n \in DOMAIN coloring : coloring[n] = c})
    IN  [k \in 1..Len(colors) |->
            [i \in 1..Len(nodes_by_color(colors[k])) |-> {nodes_by_color(colors[k])[i]}]]

\* Client.create_test_runs: per colour, the canvases the coin draws can produce
create_test_runs(graph_of_client) ==
    LET graph == NxGraph(graph_of_client[1], graph_of_client[2])
        traps == TrapsByColor(graph)
    IN  [k \in 1..Len(traps) |-> TrappifiedCanvas(graph, traps[k])]

(***************************************************************************)
(* graphix: the adaptive update of a measurement, and the direct           *)
(* (unblinded) execution of a pattern by PatternSimulator.                 *)
(***************************************************************************)
\* MeasureUpdate.compute(plane, s, t, Clifford.I): the plane is kept, the angle
\* becomes angle * coeff + add_term.  X (s) and Z (t) flip the signs of the
\* plane's axes: cos axis X, Z, Z and sin axis Y, Y, X for XY, YZ, XZ.
MeasureUpdate(plane, s, t) ==
    LET cos_axis == IF plane = "XY" THEN "X" ELSE "Z"
        sin_axis == IF plane = "XZ" THEN "X" ELSE "Y"
        Flipped(axis) == Xor(IF s /\ axis # "X" THEN 1 ELSE 0,
                             IF t /\ axis # "Z" THEN 1 ELSE 0) = 1
    IN  [new_plane |-> plane,
         coeff     |-> IF Flipped(cos_axis) = Flipped(sin_axis) THEN 1 ELSE -1,
         add_term  |-> IF Flipped(cos_axis) THEN 4 ELSE 0]

\* whether sum(results[j] for j in domain) % 2 == 1
Signal(results, domain) == SumOver(results, domain) % 2 = 1

RECURSIVE DirectRun(_, _, _)
\* PatternSimulator.run of the source pattern with the default measure method,
\* the measurement of each node giving outcomes[node]
DirectRun(bk, seq, outcomes) ==
    IF seq = <<>> THEN bk
    ELSE LET cmd == Head(seq)
             bk1 ==
               CASE cmd.kind = "N" -> AddNode(bk, cmd.node, PLUS)
                 [] cmd.kind = "E" -> entangle_nodes(bk, cmd.nodes)
                 [] cmd.kind = "M" ->
                      LET u == MeasureUpdate(cmd.plane, Signal(outcomes, cmd.s_domain),
                                             Signal(outcomes, cmd.t_domain))
                      IN  measure(bk, cmd.node, u.new_plane,
                                  cmd.angle * u.coeff + u.add_term, outcomes[cmd.node])
                 [] cmd.kind = "X" ->
                      IF Signal(outcomes, cmd.domain)
                      THEN apply_single(bk, cmd.node, OpsX) ELSE bk
                 [] cmd.kind = "Z" ->
                      IF Signal(outcomes, cmd.domain)
                      THEN apply_single(bk, cmd.node, OpsZ) ELSE bk
         IN  DirectRun(bk1, Tail(seq), outcomes)

\* the state the source pattern leaves on its output nodes when run on
\* input_state with the given outcomes
DirectOutput(pattern, input_state, outcomes) ==
    DirectRun(add_nodes(EmptyBackend, pattern.input_nodes, input_state),
              pattern.seq, outcomes)

(***************************************************************************)
(* veriphix/client.py: Client and ClientMeasureMethod, as operators on the *)
(* client's fields.                                                        *)
(***************************************************************************)
\* z_rotation(theta) of blind_qubits
z_rotation(theta) == << <<ZOne, ZZero>>, <<ZZero, ZW(theta)>> >>

\* x_blind(a).matrix of blind_qubits
x_blind(a) == IF a = 1 THEN OpsX
              ELSE << <<ZOne, ZZero>>, <<ZZero, ZOne>> >>

\* the loop body of blind_qubits with the rotation applied before the flip
BlindNode_rotation_first(st, node, sd) ==
    LET theta == Get(sd.theta, node, 0)
        a == Get(sd.a.a, node, 0)
        st1 == IF theta # 0
               THEN [backend |-> apply_single(st.backend, node, z_rotation(theta)),
                     log |-> Append(st.log, [op |-> "z_rotation", node |-> node, arg |-> theta])]
               ELSE st
    IN  IF a # 0
        THEN [backend |-> apply_single(st1.backend, node, x_blind(a)),
              log |-> Append(st1.log, [op |-> "x_blind", node |-> node, arg |-> a])]
        ELSE st1

\* one iteration of the loop of blind_qubits on a [backend, log] pair
BlindNode(st, node, sd) ==
    LET theta == Get(sd.theta, node, 0)
        a == Get(sd.a.a, node, 0)
        st1 == IF a # 0
               THEN [backend |-> apply_single(st.backend, node, x_blind(a)),
                     log |-> Append(st.log, [op |-> "x_blind", node |-> node, arg |-> a])]
               ELSE st
    IN  IF theta # 0
        THEN [backend |-> apply_single(st1.backend, node, z_rotation(theta)),
              log |-> Append(st1.log, [op |-> "z_rotation", node |-> node, arg |-> theta])]
        ELSE st1

RECURSIVE blind_qubits(_, _, _)
\* Client.blind_qubits(backend), over nodes_list
blind_qubits(st, nodes_list, sd) ==
    IF nodes_list = <<>> THEN st
    ELSE blind_qubits(BlindNode(st, Head(nodes_list), sd), Tail(nodes_list), sd)

RECURSIVE AddLogged(_, _, _)
\* backend.add_nodes(nodes, data), logged node by node
AddLogged(st, nodes, data) ==
    IF nodes = <<>> THEN st
    ELSE AddLogged([backend |-> AddNode(st.backend, Head(nodes), Head(data)),
                    log |-> Append(st.log, [op |-> "add_node", node |-> Head(nodes),
                                            arg |-> Head(data)])],
                   Tail(nodes), Tail(data))

\* prepare_states preparing every output node in PLUS
prepare_states_outputs_plus(st, input_nodes, output_nodes, nodes_list, input_st, sd) ==
    LET outer_nodes == SeqToSet(input_nodes) \cup SeqToSet(output_nodes)
        aux_nodes == SelectSeq(nodes_list, LAMBDA node : node \notin outer_nodes)
    IN  AddLogged(AddLogged(AddLogged(st, input_nodes, input_st),
                            aux_nodes, [k \in 1..Len(aux_nodes) |-> PLUS]),
                  output_nodes, [k \in 1..Len(output_nodes) |-> PLUS])

\* Client.prepare_states(backend)
prepare_states(st, input_nodes, output_nodes, nodes_list, input_st, sd) ==
    LET outer_nodes == SeqToSet(input_nodes) \cup SeqToSet(output_nodes)
        aux_nodes == SelectSeq(nodes_list, LAMBDA node : node \notin outer_nodes)
        aux_data == [k \in 1..Len(aux_nodes) |-> PLUS]
        output_data ==
            [k \in 1..Len(output_nodes) |->
                IF Xor(Get(sd.r, output_nodes[k], 0),
                       Get(sd.a.a_N, output_nodes[k], 0)) = 0
                THEN PLUS ELSE MINUS]
    IN  AddLogged(AddLogged(AddLogged(st, input_nodes, input_st),
                            aux_nodes, aux_data),
                  output_nodes, output_data)

\* get_measurement_description without the sign (-1)^a
get_measurement_description_unsigned(cmd, mdb, sd, res) ==
    LET parameters == mdb[cmd.node]
        update == MeasureUpdate(parameters.plane,
                                SumOver(res, parameters.s_domain) % 2 = 1,
                                SumOver(res, parameters.t_domain) % 2 = 1)
    IN  [plane |-> update.new_plane,
         angle |-> parameters.angle * update.coeff + update.add_term
                     + Get(sd.theta, cmd.node, 0)
                     + 4 * (Get(sd.r, cmd.node, 0) + Get(sd.a.a_N, cmd.node, 0))]

\* ClientMeasureMethod.get_measurement_description(cmd)
get_measurement_description(cmd, mdb, sd, res) ==
    LET parameters == mdb[cmd.node]
        r_value == Get(sd.r, cmd.node, 0)
        theta_value == Get(sd.theta, cmd.node, 0)
        a_value == Get(sd.a.a, cmd.node, 0)
        a_N_value == Get(sd.a.a_N, cmd.node, 0)
        s_signal == SumOver(res, parameters.s_domain)
        t_signal == SumOver(res, parameters.t_domain)
        measure_update == MeasureUpdate(parameters.plane, s_signal % 2 = 1,
                                        t_signal % 2 = 1)
        angle0 == parameters.angle
        angle1 == angle0 * measure_update.coeff + measure_update.add_term
        angle2 == (IF a_value % 2 = 0 THEN 1 ELSE -1) * angle1
                    + theta_value + 4 * (r_value + a_N_value)
    IN  [plane |-> measure_update.new_plane, angle |-> angle2]

\* set_measure_result storing the bit the server reported
set_measure_result_raw(res, sd, node, result) ==
    [n \in DOMAIN res \cup {node} |-> IF n = node THEN result ELSE res[n]]

\* ClientMeasureMethod.set_measure_result(node, result): the new results
set_measure_result(res, sd, node, result) ==
    LET result1 == IF DOMAIN sd.r # {} THEN Xor(result, sd.r[node]) ELSE result
    IN  [n \in DOMAIN res \cup {node} |-> IF n = node THEN result1 ELSE res[n]]

\* Client.decode_output(node)
decode_output(node, res, bdb, sd) ==
    LET z_decoding == Xor(SumOver(res, bdb[node].z_domain) % 2, Get(sd.r, node, 0))
        x_decoding == Xor(SumOver(res, bdb[node].x_domain) % 2, Get(sd.a.a, node, 0))
    IN  <<z_decoding, x_decoding>>

\* the iteration of decode_output_state with the X correction first
DecodeNode_x_first(st, node, res, bdb, sd) ==
    LET z_bit == Xor(SumOver(res, bdb[node].z_domain) % 2, Get(sd.r, node, 0))
        x_bit == Xor(SumOver(res, bdb[node].x_domain) % 2, Get(sd.a.a, node, 0))
        st_x == IF x_bit # 0
                THEN [backend |-> apply_single(st.backend, node, OpsX),
                      log |-> Append(st.log, [op |-> "X", node |-> node, arg |-> x_bit])]
                ELSE st
    IN  IF z_bit # 0
        THEN [backend |-> apply_single(st_x.backend, node, OpsZ),
              log |-> Append(st_x.log, [op |-> "Z", node |-> node, arg |-> z_bit])]
        ELSE st_x

\* one iteration of the loop of decode_output_state on a [backend, log] pair
DecodeNode(st, node, res, bdb, sd) ==
    LET d == decode_output(node, res, bdb, sd)
        st1 == IF d[1] # 0
               THEN [backend |-> apply_single(st.backend, node, OpsZ),
                     log |-> Append(st.log, [op |-> "Z", node |-> node, arg |-> d[1]])]
               ELSE st
    IN  IF d[2] # 0
        THEN [backend |-> apply_single(st1.backend, node, OpsX),
              log |-> Append(st1.log, [op |-> "X", node |-> node, arg |-> d[2]])]
        ELSE st1

RECURSIVE decode_output_state(_, _, _, _, _)
\* Client.decode_output_state(backend), over output_nodes
decode_output_state(st, output_nodes, res, bdb, sd) ==
    IF output_nodes = <<>> THEN st
    ELSE decode_output_state(DecodeNode(st, Head(output_nodes), res, bdb, sd),
                             Tail(output_nodes), res, bdb, sd)

(***************************************************************************)
(* The state: one Client and the backend of the delegation in progress.    *)
(***************************************************************************)
VARIABLES
    initial_pattern,     \* Client.initial_pattern
    input_state,         \* Client.input_state
    secrets,             \* Client.secrets: NoSecrets or Secrets(r, a, theta)
    secret_datas,        \* Client.secret_datas
    results,             \* Client.results
    measurement_db,      \* Client.measurement_db
    byproduct_db,        \* Client.byproduct_db
    clean_pattern,       \* Client.clean_pattern
    backend,             \* the backend handed to delegate_pattern / delegate_test_run
    pc,                  \* "idle"; in a delegation: "pattern", "test"; at its end: "returned";
                         \* in __init__ and create_test_runs: the statement to execute next
    ip,                  \* PatternSimulator.run: index of the next command of clean_pattern
    run,                 \* delegate_test_run: <<canvas>> in a test run, else <<>>
    tmp_measurement_db,  \* delegate_test_run: <<saved measurement_db>>, else <<>>
    outcome,             \* what the last delegation returned or raised
    log,                 \* the backend operations of the current (or last) delegation
    results_at_start,    \* Client.results as the current (or last) delegation found it
    budget,              \* delegations the client may still start
    refreshed,           \* whether refresh_randomness has been called on the client
    test_runs,           \* create_test_runs: the list `runs` built so far
    trappified_canvas,   \* the TrappifiedCanvas under construction: its fields
    frame                \* merge_pauli_list: its locals pauli_list, merged, i, j

vars == <<initial_pattern, input_state, secrets, secret_datas, results,
          measurement_db, byproduct_db, clean_pattern, backend, pc, ip, run,
          tmp_measurement_db, outcome, log, results_at_start, budget,
          refreshed, test_runs, trappified_canvas, frame>>

\* the variables of the construction of the test runs
canvas_vars == <<test_runs, trappified_canvas, frame>>

\* no canvas is under construction
NoCanvas ==
    /\ test_runs = <<>>
    /\ trappified_canvas = [caller |-> "none"]
    /\ frame = [pauli_list |-> <<>>, merged |-> FALSE, i |-> 0, j |-> 0]

\* Client.input_nodes, Client.output_nodes, Client.graph, Client.nodes_list
input_nodes == initial_pattern.input_nodes
output_nodes == output_nodes_of(initial_pattern)
graph == get_graph(initial_pattern)
nodes_list == graph[1]

\* Client.__init__: `secrets = Secrets()` when secrets is None
SecretsOrDefault(sec) ==
    IF sec = NoSecrets THEN [r |-> FALSE, a |-> FALSE, theta |-> FALSE] ELSE sec[1]

\* the delegations one client starts
MaxRuns == 2

(***************************************************************************)
(* The patterns the clients are built on.  A measurement angle k stands    *)
(* for k*pi/4.                                                             *)
(***************************************************************************)
\* input 0, output 1: one measurement with its X correction
PatJ == Pattern(<<0>>, <<N(1), E(0, 1), M(0, "XY", 1, {}, {}), X(1, {0})>>)

\* PatJ with its output measured (classical output)
PatJM == Pattern(<<0>>, <<N(1), E(0, 1), M(0, "XY", 1, {}, {}),
                          M(1, "XY", 2, {0}, {})>>)

\* a line 0 - 1 - 2, output 2
PatLine == Pattern(<<0>>, <<N(1), N(2), E(0, 1), E(1, 2),
                            M(0, "XY", 3, {}, {}), M(1, "XY", 1, {0}, {}),
                            X(2, {1}), Z(2, {0})>>)

\* PatLine with its output measured
PatLineM == Pattern(<<0>>, <<N(1), N(2), E(0, 1), E(1, 2),
                             M(0, "XY", 3, {}, {}), M(1, "XY", 1, {0}, {}),
                             M(2, "XY", 2, {1}, {0})>>)

\* a star 0 - 2 - 1, output 2, node 1 measured in the YZ plane
PatYZ == Pattern(<<0>>, <<N(1), N(2), E(0, 2), E(1, 2),
                          M(0, "XY", 1, {}, {}), M(1, "YZ", 2, {}, {}),
                          X(2, {0}), Z(2, {1})>>)

\* a fork 1 - 0 - 2 around the input, outputs 1 and 2
PatFork == Pattern(<<0>>, <<N(1), N(2), E(0, 1), E(0, 2),
                            M(0, "XY", 1, {}, {}), X(1, {0}), Z(2, {0})>>)

\* an input state that is no eigenstate of a Pauli operator: |0> + (1 + w)|1>
GenericState == <<ZOne, ZAdd(ZOne, ZW(1))>>

SecretsChoices ==
    {NoSecrets} \cup {Secrets(r, a, theta) : r \in BOOLEAN, a \in BOOLEAN, theta \in BOOLEAN}

\* Client.__init__(pattern, input_state, secrets=sec)
ClientInit(pattern, input_st, sec) ==
    /\ initial_pattern = pattern
    /\ input_state = input_st
    /\ secrets = sec
    /\ secret_datas \in from_secrets(SecretsOrDefault(sec), get_graph(pattern),
                                     pattern.input_nodes, output_nodes_of(pattern))
    /\ results = EmptyDict
    /\ measurement_db = measurement_db_of(pattern)
    /\ byproduct_db = get_byproduct_db(pattern)
    /\ clean_pattern = clean_pattern_of(pattern)
    /\ backend = EmptyBackend
    /\ pc = "idle"
    /\ ip = 0
    /\ run = <<>>
    /\ tmp_measurement_db = <<>>
    /\ outcome = [call |-> "none", status |-> "returned", value |-> <<>>]
    /\ log = <<>>
    /\ results_at_start = EmptyDict
    /\ refreshed = FALSE
    /\ NoCanvas

\* input_state=None: every input node in PLUS
DefaultInput(pattern) == [k \in 1..Len(pattern.input_nodes) |-> PLUS]

InputChoices(pattern) == [1..Len(pattern.input_nodes) -> {PLUS, GenericState}]

\* the clients that start MaxRuns delegations: <<pattern, secrets>>
Cases ==
    ({PatJ} \X SecretsChoices)
    \cup ({PatJM} \X {NoSecrets, Secrets(TRUE, TRUE, FALSE)})

Init ==
    /\ \E case \in Cases : ClientInit(case[1], DefaultInput(case[1]), case[2])
    /\ budget = MaxRuns

\* the secrets of the clients on three-node patterns
SecretsChoices3 ==
    {NoSecrets, Secrets(FALSE, FALSE, FALSE), Secrets(TRUE, TRUE, FALSE),
     Secrets(FALSE, FALSE, TRUE)}

\* the clients that start one delegation: <<pattern, input_state, secrets>>
RunCases ==
    ({PatJ, PatFork} \X InputChoices(PatJ) \X SecretsChoices)
    \cup ({PatJM} \X {DefaultInput(PatJM)} \X SecretsChoices)
    \cup ({PatLine, PatYZ} \X InputChoices(PatLine) \X SecretsChoices3)
    \cup ({PatLine, PatYZ} \X {DefaultInput(PatLine)} \X {Secrets(TRUE, TRUE, TRUE)})
    \cup ({PatLineM} \X {DefaultInput(PatLineM)} \X SecretsChoices3)

InitRun ==
    /\ \E case \in RunCases : ClientInit(case[1], case[2], case[3])
    /\ budget = 1

\* Client.refresh_randomness()
refresh_randomness ==
    /\ pc = "idle"
    /\ IF secrets # NoSecrets
       THEN secret_datas' \in from_secrets(secrets[1], graph, input_nodes, output_nodes)
       ELSE secret_datas' = secret_datas
    /\ refreshed' = TRUE
    /\ UNCHANGED canvas_vars
    /\ UNCHANGED <<initial_pattern, input_state, secrets, results, measurement_db,
                   byproduct_db, clean_pattern, backend, pc, ip, run,
                   tmp_measurement_db, outcome, log, results_at_start, budget>>

\* Client.delegate_pattern(backend), up to the start of sim.run: a fresh
\* backend is prepared and blinded
delegate_pattern_begin ==
    /\ pc = "idle"
    /\ budget > 0
    /\ LET st == blind_qubits(
                   prepare_states([backend |-> EmptyBackend, log |-> <<>>],
                                  input_nodes, output_nodes, nodes_list,
                                  input_state, secret_datas),
                   nodes_list, secret_datas)
       IN  /\ backend' = st.backend
           /\ log' = st.log
    /\ pc' = "pattern"
    /\ ip' = 1
    /\ budget' = budget - 1
    /\ results_at_start' = results
    /\ outcome' = [call |-> "delegate_pattern", status |-> "running", value |-> <<>>]
    /\ UNCHANGED canvas_vars
    /\ UNCHANGED <<initial_pattern, input_state, secrets, secret_datas, results,
                   measurement_db, byproduct_db, clean_pattern, run,
                   tmp_measurement_db, refreshed>>

\* Client.delegate_test_run(backend, run), up to the start of sim.run
delegate_test_run_begin ==
    /\ pc = "idle"
    /\ budget > 0
    /\ LET runs == create_test_runs(graph) IN
       \E k \in DOMAIN runs :
       \E canvas \in runs[k] :
          LET order == SortedSeq(SeqToSet(graph[1]))
              preparation_backend ==
                  blind_qubits(
                     [backend |-> add_nodes(EmptyBackend, order, canvas.states),
                      log |-> <<>>],
                     nodes_list, secret_datas)
          IN  /\ run' = <<canvas>>
              /\ backend' = add_state(EmptyBackend, order,
                                      preparation_backend.backend.psi)
              /\ log' = preparation_backend.log
    /\ tmp_measurement_db' = <<measurement_db>>
    /\ measurement_db' = [node \in DOMAIN measurement_db |-> DefaultM(node)]
    /\ pc' = "test"
    /\ ip' = 1
    /\ budget' = budget - 1
    /\ results_at_start' = results
    /\ outcome' = [call |-> "delegate_test_run", status |-> "running", value |-> <<>>]
    /\ UNCHANGED canvas_vars
    /\ UNCHANGED <<initial_pattern, input_state, secrets, secret_datas, results,
                   byproduct_db, clean_pattern, refreshed>>

\* PatternSimulator.run: one command of clean_pattern.  A measurement asks the
\* measure method for its description, measures, and reports the result.
simulator_step ==
    /\ pc \in {"pattern", "test"}
    /\ ip <= Len(clean_pattern.seq)
    /\ LET cmd == clean_pattern.seq[ip] IN
       IF cmd.kind = "E"
       THEN /\ backend' = entangle_nodes(backend, cmd.nodes)
            /\ log' = Append(log, [op |-> "E", node |-> cmd.nodes[1], arg |-> cmd.nodes[2]])
            /\ results' = results
       ELSE LET description == get_measurement_description(
                                   cmd, measurement_db, secret_datas, results)
            IN  \E result \in PossibleOutcomes(backend, cmd.node, description.plane,
                                               description.angle) :
                   /\ backend' = measure(backend, cmd.node, description.plane,
                                         description.angle, result)
                   /\ log' = Append(log, [op |-> "measure", node |-> cmd.node,
                                          arg |-> <<description, result>>])
                   /\ results' = set_measure_result(results, secret_datas,
                                                    cmd.node, result)
    /\ ip' = ip + 1
    /\ UNCHANGED canvas_vars
    /\ UNCHANGED <<initial_pattern, input_state, secrets, secret_datas,
                   measurement_db, byproduct_db, clean_pattern, pc, run,
                   tmp_measurement_db, outcome, results_at_start, budget, refreshed>>

\* Client.delegate_pattern(backend), after sim.run: decode_output_state
delegate_pattern_end ==
    /\ pc = "pattern"
    /\ ip > Len(clean_pattern.seq)
    /\ LET st == decode_output_state([backend |-> backend, log |-> log],
                                     output_nodes, results, byproduct_db, secret_datas)
       IN  /\ backend' = st.backend
           /\ log' = st.log
    /\ pc' = "returned"
    /\ ip' = 0
    /\ outcome' = [call |-> "delegate_pattern", status |-> "returned", value |-> <<>>]
    /\ UNCHANGED canvas_vars
    /\ UNCHANGED <<initial_pattern, input_state, secrets, secret_datas, results,
                   measurement_db, byproduct_db, clean_pattern, run,
                   tmp_measurement_db, results_at_start, budget, refreshed>>

\* Client.delegate_test_run(backend, run), after sim.run: the trap outcomes.
\* results[component] raises KeyError for a component without a result, and
\* the measurement_db is then not restored.
delegate_test_run_end ==
    /\ pc = "test"
    /\ ip > Len(clean_pattern.seq)
    /\ LET traps_list == run[1].traps_list IN
       IF \A k \in DOMAIN traps_list : traps_list[k] \subseteq DOMAIN results
       THEN /\ outcome' = [call |-> "delegate_test_run", status |-> "returned",
                           value |-> [k \in DOMAIN traps_list |->
                                         SumOver(results, traps_list[k]) % 2]]
            /\ measurement_db' = tmp_measurement_db[1]
       ELSE /\ outcome' = [call |-> "delegate_test_run", status |-> "KeyError",
                           value |-> <<>>]
            /\ measurement_db' = measurement_db
    /\ pc' = "returned"
    /\ ip' = 0
    /\ tmp_measurement_db' = <<>>
    /\ UNCHANGED canvas_vars
    /\ UNCHANGED <<initial_pattern, input_state, secrets, secret_datas, results,
                   byproduct_db, clean_pattern, backend, run, log,
                   results_at_start, budget, refreshed>>

\* the caller takes what the delegation returned (or raised) and drops the
\* backend it had handed over
caller_continues ==
    /\ pc = "returned"
    /\ pc' = "idle"
    /\ backend' = EmptyBackend
    /\ log' = <<>>
    /\ run' = <<>>
    /\ outcome' = [call |-> "none", status |-> "returned", value |-> <<>>]
    /\ results_at_start' = EmptyDict
    /\ UNCHANGED canvas_vars
    /\ UNCHANGED <<initial_pattern, input_state, secrets, secret_datas, results,
                   measurement_db, byproduct_db, clean_pattern, ip,
                   tmp_measurement_db, budget, refreshed>>

Next ==
    \/ refresh_randomness
    \/ delegate_pattern_begin
    \/ delegate_test_run_begin
    \/ simulator_step
    \/ delegate_pattern_end
    \/ delegate_test_run_end
    \/ caller_continues

Spec == Init /\ [][Next]_vars

\* one delegation with the secrets drawn at construction
NextRun ==
    \/ delegate_pattern_begin
    \/ delegate_test_run_begin
    \/ simulator_step
    \/ delegate_pattern_end
    \/ delegate_test_run_end
    \/ caller_continues

SpecRun == InitRun /\ [][NextRun]_vars

(***************************************************************************)
(* Clients that only refresh their secrets, on the three-node graphs.      *)
(***************************************************************************)
RefreshCases ==
    ({PatLine, PatYZ, PatLineM, PatFork}
        \X {NoSecrets, Secrets(FALSE, TRUE, FALSE), Secrets(TRUE, TRUE, FALSE)})
    \cup ({PatLine, PatYZ} \X {Secrets(FALSE, TRUE, TRUE)})

InitRefresh ==
    /\ \E case \in RefreshCases : ClientInit(case[1], DefaultInput(case[1]), case[2])
    /\ budget = 0

NextRefresh == refresh_randomness

SpecRefresh == InitRefresh /\ [][NextRefresh]_vars

(***************************************************************************)
(* Client.__init__, lines 185-186: the clean pattern of a source pattern,  *)
(* built in two steps.  The source patterns are the patterns above with    *)
(* other measurement parameters and with corrections left out.             *)
(***************************************************************************)
OtherPlane(plane) == IF plane = "XY" THEN "YZ" ELSE "XY"

RECURSIVE SeqVariants(_)
SeqVariants(seq) ==
    IF seq = <<>> THEN {<<>>}
    ELSE LET cmd == Head(seq)
             rest == SeqVariants(Tail(seq))
         IN  IF cmd.kind = "M"
             THEN {<<M(cmd.node, plane, params[1], params[2], params[3])>> \o r :
                      plane \in {cmd.plane, OtherPlane(cmd.plane)},
                      params \in {<<cmd.angle, cmd.s_domain, cmd.t_domain>>,
                                  <<0, {}, {}>>},
                      r \in rest}
             ELSE IF cmd.kind \in {"X", "Z"}
                  THEN {<<cmd>> \o r : r \in rest} \cup rest
                  ELSE {<<cmd>> \o r : r \in rest}

SourcePatterns ==
    UNION {{Pattern(p.input_nodes, seq) : seq \in SeqVariants(p.seq)} :
              p \in {PatJ, PatJM, PatLine, PatLineM, PatYZ, PatFork}}

InitClean ==
    /\ initial_pattern \in SourcePatterns
    /\ clean_pattern = initial_pattern
    /\ pc = "__init__"
    /\ input_state = <<>>
    /\ secrets = NoSecrets
    /\ secret_datas = <<>>
    /\ results = EmptyDict
    /\ measurement_db = <<>>
    /\ byproduct_db = <<>>
    /\ backend = EmptyBackend
    /\ ip = 0
    /\ run = <<>>
    /\ tmp_measurement_db = <<>>
    /\ outcome = [call |-> "none", status |-> "returned", value |-> <<>>]
    /\ log = <<>>
    /\ results_at_start = EmptyDict
    /\ budget = 0
    /\ refreshed = FALSE
    /\ NoCanvas

\* pattern_without_flow = remove_flow(pattern)
init_remove_flow ==
    /\ pc = "__init__"
    /\ clean_pattern' = remove_flow(initial_pattern)
    /\ pc' = "pattern_without_flow"
    /\ UNCHANGED canvas_vars
    /\ UNCHANGED <<initial_pattern, input_state, secrets, secret_datas, results,
                   measurement_db, byproduct_db, backend, ip, run,
                   tmp_measurement_db, outcome, log, results_at_start, budget,
                   refreshed>>

\* self.clean_pattern = prepared_nodes_as_input_nodes(pattern_without_flow)
init_prepared_nodes_as_input_nodes ==
    /\ pc = "pattern_without_flow"
    /\ clean_pattern' = prepared_nodes_as_input_nodes(clean_pattern)
    /\ pc' = "clean_pattern"
    /\ UNCHANGED canvas_vars
    /\ UNCHANGED <<initial_pattern, input_state, secrets, secret_datas, results,
                   measurement_db, byproduct_db, backend, ip, run,
                   tmp_measurement_db, outcome, log, results_at_start, budget,
                   refreshed>>

NextClean ==
    \/ init_remove_flow
    \/ init_prepared_nodes_as_input_nodes

SpecClean == InitClean /\ [][NextClean]_vars

(***************************************************************************)
(* The methods of the client and of its measure method called on their     *)
(* own, between and inside the delegations of one client.  The log keeps   *)
(* the call and its argument next to the backend operations.               *)
(***************************************************************************)
\* get_measure_result answering with the recorded result
get_measure_result_reading(res, node) ==
    IF node \in DOMAIN res
    THEN [status |-> "returned", value |-> <<res[node]>>]
    ELSE [status |-> "KeyError", value |-> <<>>]

\* ClientMeasureMethod.get_measure_result(node): what the call ends in
get_measure_result(res, node) ==
    [status |-> "ValueError", value |-> <<>>]

\* results a measure method may be handed again for recorded nodes, in one run
MaxRewrites == 1

\* the set_measure_result calls of the log
Rewrites == SelectSeq(log, LAMBDA e : e.op = "set_measure_result")

\* the nodes measured so far in the delegation in progress
MeasuredInRun == {log[k].node : k \in {m \in DOMAIN log : log[m].op = "measure"}}

\* the clients whose methods are called: <<pattern, secrets>>
MethodCases ==
    {PatJ, PatJM, PatLine} \X {NoSecrets, Secrets(TRUE, TRUE, FALSE)}

InitMethod ==
    /\ \E case \in MethodCases : ClientInit(case[1], DefaultInput(case[1]), case[2])
    /\ budget = MaxRuns

\* measure_method.get_measure_result(node), by the caller of the client
\* between two delegations: the call raises
get_measure_result_call ==
    /\ pc = "idle"
    /\ \E node \in SeqToSet(nodes_list) :
          LET answer == get_measure_result(results, node)
          IN  /\ outcome' = [call |-> "get_measure_result",
                             status |-> answer.status, value |-> answer.value]
              /\ log' = <<[op |-> "get_measure_result", node |-> node, arg |-> <<>>]>>
    /\ pc' = "returned"
    /\ UNCHANGED canvas_vars
    /\ UNCHANGED <<initial_pattern, input_state, secrets, secret_datas, results,
                   measurement_db, byproduct_db, clean_pattern, backend, ip, run,
                   tmp_measurement_db, results_at_start, budget, refreshed>>

\* measure_method.get_measure_result(node) inside sim.run: the exception ends
\* the delegation where it is (a test run leaves measurement_db patched)
get_measure_result_in_run ==
    /\ pc \in {"pattern", "test"}
    /\ \E node \in SeqToSet(nodes_list) :
          LET answer == get_measure_result(results, node)
          IN  /\ outcome' = [call |-> "get_measure_result",
                             status |-> answer.status, value |-> answer.value]
              /\ log' = Append(log, [op |-> "get_measure_result", node |-> node,
                                     arg |-> <<>>])
    /\ pc' = "returned"
    /\ UNCHANGED canvas_vars
    /\ UNCHANGED <<initial_pattern, input_state, secrets, secret_datas, results,
                   measurement_db, byproduct_db, clean_pattern, backend, ip, run,
                   tmp_measurement_db, results_at_start, budget, refreshed>>

\* measure_method.set_measure_result(node, result) for a node whose result
\* the run in progress has recorded already: lines 370-373 run as for the
\* first result
set_measure_result_repeated ==
    /\ pc \in {"pattern", "test"}
    /\ Len(Rewrites) < MaxRewrites
    /\ \E node \in MeasuredInRun, result \in {0, 1} :
          /\ results' = set_measure_result(results, secret_datas, node, result)
          /\ log' = Append(log, [op |-> "set_measure_result", node |-> node,
                                 arg |-> result])
    /\ UNCHANGED canvas_vars
    /\ UNCHANGED <<initial_pattern, input_state, secrets, secret_datas,
                   measurement_db, byproduct_db, clean_pattern, backend, pc, ip,
                   run, tmp_measurement_db, outcome, results_at_start, budget,
                   refreshed>>

\* client.decode_output(node), by the caller of the client between two
\* delegations: self.results[...] raises KeyError for a missing node
decode_output_call ==
    /\ pc = "idle"
    /\ \E node \in SeqToSet(output_nodes) :
          /\ outcome' =
                IF (byproduct_db[node].z_domain \cup byproduct_db[node].x_domain)
                       \subseteq DOMAIN results
                THEN [call |-> "decode_output", status |-> "returned",
                      value |-> decode_output(node, results, byproduct_db, secret_datas)]
                ELSE [call |-> "decode_output", status |-> "KeyError", value |-> <<>>]
          /\ log' = <<[op |-> "decode_output", node |-> node, arg |-> <<>>]>>
    /\ pc' = "returned"
    /\ UNCHANGED canvas_vars
    /\ UNCHANGED <<initial_pattern, input_state, secrets, secret_datas, results,
                   measurement_db, byproduct_db, clean_pattern, backend, ip, run,
                   tmp_measurement_db, results_at_start, budget, refreshed>>

NextMethod ==
    \/ delegate_pattern_begin
    \/ delegate_test_run_begin
    \/ simulator_step
    \/ delegate_pattern_end
    \/ delegate_test_run_end
    \/ caller_continues
    \/ get_measure_result_call
    \/ get_measure_result_in_run
    \/ set_measure_result_repeated
    \/ decode_output_call

SpecMethod == InitMethod /\ [][NextMethod]_vars

(***************************************************************************)
(* Client.create_test_runs and TrappifiedCanvas.__init__, statement by     *)
(* statement, for the clients of the graphs on at most MaxNodes nodes.     *)
(* pc is the statement to execute next.                                    *)
(***************************************************************************)
MaxNodes == 3

RECURSIVE SortedPairs(_)
\* the pairs of S as a list, in lexicographic order
SortedPairs(S) ==
    IF S = {} THEN <<>>
    ELSE LET m == CHOOSE x \in S :
                     \A y \in S : x[1] < y[1] \/ (x[1] = y[1] /\ x[2] <= y[2])
         IN  <<m>> \o SortedPairs(S \ {m})

\* a pattern that prepares the nodes 0..n-1 and entangles the pairs of edges
GraphPattern(n, edges) ==
    Pattern(<<>>, [k \in 1..n |-> N(k - 1)]
                    \o [k \in 1..Cardinality(edges) |->
                           E(SortedPairs(edges)[k][1], SortedPairs(edges)[k][2])])

GraphPatterns ==
    UNION {{GraphPattern(n, edges) :
               edges \in SUBSET {<<u, v>> \in (0..(n - 1)) \X (0..(n - 1)) : u < v}} :
           n \in 1..MaxNodes}

\* create_test_runs, lines 245-248: the networkx graph of the client
ClientGraph == NxGraph(graph[1], graph[2])

\* the lists without repetition of the nodes of S
Orderings(S) ==
    {order \in [1..Cardinality(S) -> S] :
        \A k, m \in 1..Cardinality(S) : order[k] = order[m] => k = m}

\* no two nodes of S are adjacent
Independent(g, S) == \A u, v \in S : v \notin neighbors(g, u)

InitCanvas ==
    /\ initial_pattern \in GraphPatterns
    /\ clean_pattern = clean_pattern_of(initial_pattern)
    /\ pc = "client"
    /\ input_state = <<>>
    /\ secrets = NoSecrets
    /\ secret_datas = <<>>
    /\ results = EmptyDict
    /\ measurement_db = <<>>
    /\ byproduct_db = <<>>
    /\ backend = EmptyBackend
    /\ ip = 0
    /\ run = <<>>
    /\ tmp_measurement_db = <<>>
    /\ outcome = [call |-> "none", status |-> "returned", value |-> <<>>]
    /\ log = <<>>
    /\ results_at_start = EmptyDict
    /\ budget = 0
    /\ refreshed = FALSE
    /\ NoCanvas

\* the fields of the client and of its delegations
delegation_vars ==
    <<initial_pattern, input_state, secrets, secret_datas, results,
      measurement_db, byproduct_db, clean_pattern, backend, ip, run,
      tmp_measurement_db, outcome, log, results_at_start, budget, refreshed>>

\* TrappifiedCanvas.__init__, lines 38-42 up to the loop of merge_pauli_list:
\* the fields of the new canvas and the locals of merge_pauli_list.
\* pauli_list is the list object self.trap_stabilizers.
CanvasInit(caller, g, traps_list) ==
    LET trap_stabilizers ==
            [k \in 1..Len(traps_list) |-> compute_trap_stabilizer(g, traps_list[k])]
    IN  /\ trappified_canvas' = [caller |-> caller, graph |-> g,
                                 traps_list |-> traps_list,
                                 trap_stabilizers |-> trap_stabilizers,
                                 stabilizer |-> <<>>, dummies_coins |-> <<>>,
                                 coins |-> <<>>, states |-> <<>>]
        /\ frame' = [pauli_list |-> trap_stabilizers, merged |-> TRUE,
                     i |-> 0, j |-> 0]
        /\ pc' = "while merged"

\* create_test_runs, lines 245-259: the colouring, and runs = []
create_test_runs_begin ==
    /\ pc = "client"
    /\ pc' = "for color in colors"
    /\ test_runs' = <<>>
    /\ UNCHANGED <<trappified_canvas, frame>>
    /\ UNCHANGED delegation_vars

\* create_test_runs, lines 260-273: the traps of the next colour and the call
\* of TrappifiedCanvas; line 276 after the last colour
create_test_runs_for_color ==
    /\ pc = "for color in colors"
    /\ LET traps == TrapsByColor(ClientGraph) IN
       IF Len(test_runs) < Len(traps)
       THEN CanvasInit("create_test_runs", ClientGraph, traps[Len(test_runs) + 1])
       ELSE /\ pc' = "return runs"
            /\ UNCHANGED <<trappified_canvas, frame>>
    /\ UNCHANGED test_runs
    /\ UNCHANGED delegation_vars

\* create_test_runs, line 275: runs.append(trappified_canvas)
create_test_runs_append ==
    /\ pc = "canvas built"
    /\ trappified_canvas.caller = "create_test_runs"
    /\ test_runs' = Append(test_runs, trappified_canvas)
    /\ pc' = "for color in colors"
    /\ UNCHANGED <<trappified_canvas, frame>>
    /\ UNCHANGED delegation_vars

\* TrappifiedCanvas(graph, traps_list) for the single-node traps of a colour
\* class of some proper colouring of the graph, in any order
TrappifiedCanvas_of_colour_class ==
    /\ pc = "client"
    /\ \E S \in SUBSET SeqToSet(ClientGraph.nodes) :
          /\ S # {}
          /\ Independent(ClientGraph, S)
          /\ \E order \in Orderings(S) :
                CanvasInit("colour class", ClientGraph,
                           [k \in 1..Len(order) |-> {order[k]}])
    /\ UNCHANGED test_runs
    /\ UNCHANGED delegation_vars

\* TrappifiedCanvas(graph, traps_list) for any single-node traps, in any order
TrappifiedCanvas_of_any_traps ==
    /\ pc = "client"
    /\ \E S \in SUBSET SeqToSet(ClientGraph.nodes) :
          /\ S # {}
          /\ \E order \in Orderings(S) :
                CanvasInit("any traps", ClientGraph,
                           [k \in 1..Len(order) |-> {order[k]}])
    /\ UNCHANGED test_runs
    /\ UNCHANGED delegation_vars

\* merge_pauli_list, lines 93-95 and 122: `while merged`, and the return to
\* line 42 of __init__
merge_while_merged ==
    /\ pc = "while merged"
    /\ IF frame.merged
       THEN /\ frame' = [frame EXCEPT !.merged = FALSE, !.i = 0]
            /\ pc' = "while i"
            /\ UNCHANGED trappified_canvas
       ELSE /\ trappified_canvas' =
                  [trappified_canvas EXCEPT !.stabilizer = frame.pauli_list[1],
                                            !.trap_stabilizers = frame.pauli_list]
            /\ frame' = [pauli_list |-> <<>>, merged |-> FALSE, i |-> 0, j |-> 0]
            /\ pc' = "generate_coins_dummies"
    /\ UNCHANGED test_runs
    /\ UNCHANGED delegation_vars

\* merge_pauli_list, lines 97-98: `while i < len(pauli_list) - 1`
merge_while_i ==
    /\ pc = "while i"
    /\ IF frame.i < Len(frame.pauli_list) - 1
       THEN /\ frame' = [frame EXCEPT !.j = frame.i + 1]
            /\ pc' = "while j"
       ELSE /\ pc' = "while merged"
            /\ UNCHANGED frame
    /\ UNCHANGED <<test_runs, trappified_canvas>>
    /\ UNCHANGED delegation_vars

\* merge_pauli_list, lines 100-117: one iteration of `while j < len(pauli_list)`
merge_while_j ==
    /\ pc = "while j"
    /\ IF frame.j < Len(frame.pauli_list)
       THEN IF common_eigenstate(frame.pauli_list[frame.i + 1],
                                 frame.pauli_list[frame.j + 1])
            THEN /\ frame' =
                       [frame EXCEPT
                          !.pauli_list =
                              RemoveAt([frame.pauli_list EXCEPT
                                          ![frame.i + 1] =
                                              merge(frame.pauli_list[frame.i + 1],
                                                    frame.pauli_list[frame.j + 1])],
                                       frame.j + 1),
                          !.merged = TRUE]
                 /\ pc' = "if not merged"
            ELSE /\ frame' = [frame EXCEPT !.j = frame.j + 1]
                 /\ pc' = "while j"
       ELSE /\ pc' = "if not merged"
            /\ UNCHANGED frame
    /\ UNCHANGED <<test_runs, trappified_canvas>>
    /\ UNCHANGED delegation_vars

\* merge_pauli_list, lines 119-120: `if not merged: i += 1`
merge_if_not_merged ==
    /\ pc = "if not merged"
    /\ frame' = IF ~frame.merged THEN [frame EXCEPT !.i = frame.i + 1] ELSE frame
    /\ pc' = "while i"
    /\ UNCHANGED <<test_runs, trappified_canvas>>
    /\ UNCHANGED delegation_vars

\* TrappifiedCanvas.__init__, line 43
canvas_generate_coins_dummies ==
    /\ pc = "generate_coins_dummies"
    /\ \E dummies_coins \in generate_coins_dummies(trappified_canvas.graph,
                                                  trappified_canvas.traps_list) :
          trappified_canvas' =
              [trappified_canvas EXCEPT !.dummies_coins = dummies_coins]
    /\ pc' = "generate_coins_trap_qubits"
    /\ UNCHANGED <<test_runs, frame>>
    /\ UNCHANGED delegation_vars

\* TrappifiedCanvas.__init__, line 44
canvas_generate_coins_trap_qubits ==
    /\ pc = "generate_coins_trap_qubits"
    /\ trappified_canvas' =
          [trappified_canvas EXCEPT
              !.coins = generate_coins_trap_qubits(trappified_canvas.graph,
                                                   trappified_canvas.traps_list,
                                                   trappified_canvas.dummies_coins)]
    /\ pc' = "generate_eigenstate"
    /\ UNCHANGED <<test_runs, frame>>
    /\ UNCHANGED delegation_vars

\* TrappifiedCanvas.__init__, line 45
canvas_generate_eigenstate ==
    /\ pc = "generate_eigenstate"
    /\ trappified_canvas' =
          [trappified_canvas EXCEPT
              !.states = generate_eigenstate(trappified_canvas.graph,
                                             trappified_canvas.stabilizer,
                                             trappified_canvas.coins)]
    /\ pc' = "canvas built"
    /\ UNCHANGED <<test_runs, frame>>
    /\ UNCHANGED delegation_vars

\* the statements of TrappifiedCanvas.__init__
CanvasSteps ==
    \/ merge_while_merged
    \/ merge_while_i
    \/ merge_while_j
    \/ merge_if_not_merged
    \/ canvas_generate_coins_dummies
    \/ canvas_generate_coins_trap_qubits
    \/ canvas_generate_eigenstate

NextCanvas ==
    \/ create_test_runs_begin
    \/ create_test_runs_for_color
    \/ create_test_runs_append
    \/ TrappifiedCanvas_of_colour_class
    \/ CanvasSteps

SpecCanvas == InitCanvas /\ [][NextCanvas]_vars

\* merge_pauli_list, once called, goes on from each statement to the next
MergeFairness ==
    /\ WF_vars(merge_while_merged)
    /\ WF_vars(merge_while_i)
    /\ WF_vars(merge_while_j)
    /\ WF_vars(merge_if_not_merged)

SpecCanvasFair == SpecCanvas /\ MergeFairness

NextAnyTraps ==
    \/ TrappifiedCanvas_of_any_traps
    \/ CanvasSteps

SpecAnyTraps == InitCanvas /\ [][NextAnyTraps]_vars

SpecAnyTrapsFair == SpecAnyTraps /\ MergeFairness

(***************************************************************************)
(* Test runs with a noise model handed to the simulator (the noise_model   *)
(* argument of delegate_test_run): the noise flips the bit one measurement *)
(* reports, once in a run; everything else is as without noise.            *)
(***************************************************************************)
\* the measurements whose reported bit the noise has flipped
Confused == SelectSeq(log, LAMBDA e : e.op = "confuse_result")

\* the clients of the noisy test runs: <<pattern, secrets>>
NoisyCases ==
    ({PatJM} \X SecretsChoices) \cup ({PatLineM} \X SecretsChoices3)

InitNoisy ==
    /\ \E case \in NoisyCases : ClientInit(case[1], DefaultInput(case[1]), case[2])
    /\ budget = 1

\* PatternSimulator.run: a measurement command under the noise model.  The
\* backend measures as usual; the bit handed to set_measure_result is the
\* flipped one.
simulator_step_confused ==
    /\ pc = "test"
    /\ ip <= Len(clean_pattern.seq)
    /\ clean_pattern.seq[ip].kind = "M"
    /\ Confused = <<>>
    /\ LET cmd == clean_pattern.seq[ip]
           description == get_measurement_description(
                              cmd, measurement_db, secret_datas, results)
       IN  \E result \in PossibleOutcomes(backend, cmd.node, description.plane,
                                          description.angle) :
              /\ backend' = measure(backend, cmd.node, description.plane,
                                    description.angle, result)
              /\ log' = log \o <<[op |-> "measure", node |-> cmd.node,
                                  arg |-> <<description, result>>],
                                 [op |-> "confuse_result", node |-> cmd.node,
                                  arg |-> 1 - result]>>
              /\ results' = set_measure_result(results, secret_datas,
                                               cmd.node, 1 - result)
    /\ ip' = ip + 1
    /\ UNCHANGED canvas_vars
    /\ UNCHANGED <<initial_pattern, input_state, secrets, secret_datas,
                   measurement_db, byproduct_db, clean_pattern, pc, run,
                   tmp_measurement_db, outcome, results_at_start, budget, refreshed>>

NextNoisy ==
    \/ delegate_test_run_begin
    \/ simulator_step
    \/ simulator_step_confused
    \/ delegate_test_run_end
    \/ caller_continues

SpecNoisy == InitNoisy /\ [][NextNoisy]_vars

(***************************************************************************)
(* Clients of the line 0 - 1 - 2 whose source patterns carry zero, one or  *)
(* two corrections on the output node 2, and possibly a correction on the  *)
(* measured node 1.                                                        *)
(***************************************************************************)
\* the corrections on the output node the patterns are built from
OutputCorrections == {X(2, {0}), X(2, {1}), Z(2, {0}), Z(2, {0, 1})}

\* the lists of at most two corrections on the output node
CorrectionLists ==
    {<<>>} \cup {<<c>> : c \in OutputCorrections}
           \cup {<<c, d>> : c \in OutputCorrections, d \in OutputCorrections}

ByproductPatterns ==
    {Pattern(<<0>>, <<N(1), N(2), E(0, 1), E(1, 2), M(0, "XY", 3, {}, {})>>
                       \o inner \o <<M(1, "XY", 1, {0}, {})>> \o corrections) :
        inner \in {<<>>, <<X(1, {0})>>}, corrections \in CorrectionLists}

\* the clients of these patterns: <<pattern, secrets>>
ByproductCases == ByproductPatterns \X {NoSecrets, Secrets(TRUE, TRUE, FALSE)}

InitByproduct ==
    /\ \E case \in ByproductCases : ClientInit(case[1], DefaultInput(case[1]), case[2])
    /\ budget = 1

SpecByproduct == InitByproduct /\ [][Next]_vars

(***************************************************************************)
(* Properties.                                                             *)
(***************************************************************************)
\* the secrets of a node as the client looks them up: dict.get(node, 0)
SecretR(node) == Get(secret_datas.r, node, 0)
SecretA(node) == Get(secret_datas.a.a, node, 0)
SecretAN(node) == Get(secret_datas.a.a_N, node, 0)
SecretTheta(node) == Get(secret_datas.theta, node, 0)

Nodes == SeqToSet(nodes_list)

Parity(res, domain) == SumOver(res, domain) % 2

\* whether the flag of a secret is set: secrets=None sets none
Enabled(flag) == secrets # NoSecrets /\ secrets[1][flag]

PatternReturned == pc = "returned" /\ outcome.call = "delegate_pattern"
TestRunReturned == pc = "returned" /\ outcome.call = "delegate_test_run"

\* the measurements of the delegation in progress, in order
Measurements == SelectSeq(log, LAMBDA e : e.op = "measure")

\* C1: a test run on a pattern whose nodes are all measured, with an honest
\* noiseless executor, returns one entry per trap of the canvas, each of them
\* 0, whatever the canvas, the coins and the secrets
C1_HonestTestRunReturnsZeros ==
    (TestRunReturned /\ output_nodes = <<>>) =>
        /\ outcome.status = "returned"
        /\ DOMAIN outcome.value = DOMAIN run[1].traps_list
        /\ \A k \in DOMAIN outcome.value : outcome.value[k] = 0

\* a test run with two traps has returned, under r and a secrets that are not
\* all 0, dummies with coin 1, and a server that reported a 1
C1_Witness ==
    /\ TestRunReturned
    /\ output_nodes = <<>>
    /\ Len(run[1].traps_list) = 2
    /\ \E n \in Nodes : SecretR(n) = 1
    /\ \E n \in Nodes : SecretA(n) = 1
    /\ \E n \in Nodes : run[1].coins[n] = 1
    /\ \E i \in DOMAIN Measurements : Measurements[i].arg[2] = 1

\* C2: delegate_pattern leaves the output nodes in the state the direct run
\* of the source pattern on the same input leaves them in, the measurements
\* of the direct run giving the outcomes the client recorded
C2_DelegatePatternEqualsDirectRun ==
    PatternReturned =>
        SameState(backend, DirectOutput(initial_pattern, input_state, results),
                  output_nodes)

\* the same for the source patterns that measure in the XY plane only
DelegatePatternEqualsDirectRunXY ==
    (PatternReturned /\ \A n \in DOMAIN measurement_db : measurement_db[n].plane = "XY")
        => SameState(backend, DirectOutput(initial_pattern, input_state, results),
                     output_nodes)

\* the angle of a measurement after its adaptive correction alone
CorrectedAngle(parameters, res) ==
    LET update == MeasureUpdate(parameters.plane,
                                Parity(res, parameters.s_domain) = 1,
                                Parity(res, parameters.t_domain) = 1)
    IN  parameters.angle * update.coeff + update.add_term

\* C3: a client without secrets (secrets=None, or r, a and theta all
\* disabled) finds 0 at every secret lookup; blind_qubits applies nothing,
\* the output nodes are prepared in PLUS, a measurement is described by its
\* adaptively corrected angle, the reported bit is stored as it is, and
\* decode_output returns the parities of the z_domain and of the x_domain
C3_NoSecretsNoBlinding ==
    (secrets = NoSecrets \/ secrets = Secrets(FALSE, FALSE, FALSE)) =>
        /\ \A n \in Nodes :
              SecretR(n) = 0 /\ SecretA(n) = 0 /\ SecretAN(n) = 0 /\ SecretTheta(n) = 0
        /\ \A i \in DOMAIN log : log[i].op \notin {"x_blind", "z_rotation"}
        /\ \A i \in DOMAIN log :
              (log[i].op = "add_node" /\ log[i].node \in SeqToSet(output_nodes))
                  => log[i].arg = PLUS
        /\ pc \in {"pattern", "test"} =>
              \A i \in DOMAIN Measurements :
                 LET node == Measurements[i].node
                     description == Measurements[i].arg[1]
                 IN  /\ description.plane = measurement_db[node].plane
                     /\ description.angle = CorrectedAngle(measurement_db[node], results)
                     /\ results[node] = Measurements[i].arg[2]
        /\ PatternReturned =>
              \A n \in SeqToSet(output_nodes) :
                 decode_output(n, results, byproduct_db, secret_datas)
                    = <<Parity(results, byproduct_db[n].z_domain),
                        Parity(results, byproduct_db[n].x_domain)>>

\* delegate_pattern has returned on the line, all flags disabled, after a
\* measurement with its signal set and a decoding that applied X
C3_Witness ==
    /\ PatternReturned
    /\ secrets = Secrets(FALSE, FALSE, FALSE)
    /\ initial_pattern = PatLine
    /\ results[0] = 1
    /\ \E i \in DOMAIN log : log[i].op = "X"

\* whether two patterns differ in nothing but their measurement parameters
\* and their correction commands
DiffersOnlyInFlow(p, q) ==
    LET Rest(pattern) == SelectSeq(pattern.seq, LAMBDA cmd : cmd.kind \notin {"X", "Z"})
    IN  /\ p.input_nodes = q.input_nodes
        /\ Len(Rest(p)) = Len(Rest(q))
        /\ \A i \in DOMAIN Rest(p) :
              /\ Rest(p)[i].kind = Rest(q)[i].kind
              /\ Rest(p)[i].kind = "M" => Rest(p)[i].node = Rest(q)[i].node
              /\ Rest(p)[i].kind # "M" => Rest(p)[i] = Rest(q)[i]

\* C4: the clean pattern has no X and no Z command, and its measurement
\* commands carry the node and nothing else; source patterns that differ only
\* in measurement parameters and corrections have the same clean pattern; the
\* commands that remain are the E and M commands of the source, in its order
C4_CleanPatternHidesFlow ==
    pc = "clean_pattern" =>
        /\ \A i \in DOMAIN clean_pattern.seq :
              /\ clean_pattern.seq[i].kind \notin {"X", "Z"}
              /\ clean_pattern.seq[i].kind = "M"
                    => DOMAIN clean_pattern.seq[i] = {"kind", "node"}
        /\ \A q \in SourcePatterns :
              DiffersOnlyInFlow(q, initial_pattern) => clean_pattern_of(q) = clean_pattern
        /\ LET kept == SelectSeq(initial_pattern.seq, LAMBDA cmd : cmd.kind \in {"E", "M"})
           IN  /\ Len(clean_pattern.seq) = Len(kept)
               /\ \A i \in DOMAIN kept :
                     /\ clean_pattern.seq[i].kind = kept[i].kind
                     /\ kept[i].kind = "E" => clean_pattern.seq[i].nodes = kept[i].nodes
                     /\ kept[i].kind = "M" => clean_pattern.seq[i].node = kept[i].node

\* the clean pattern of the line, with its signal domains and its two
\* corrections, is built
C4_Witness ==
    /\ pc = "clean_pattern"
    /\ initial_pattern = PatLine
    /\ Len(clean_pattern.seq) = 4

\* the secrets are whole and within their roles and ranges
SecretsWellFormed ==
    /\ DOMAIN secret_datas.r = IF Enabled("r") THEN Nodes ELSE {}
    /\ DOMAIN secret_datas.a.a = IF Enabled("a") THEN Nodes ELSE {}
    /\ DOMAIN secret_datas.a.a_N = DOMAIN secret_datas.a.a
    /\ DOMAIN secret_datas.theta = IF Enabled("theta") THEN Nodes ELSE {}
    /\ \A n \in Nodes :
          /\ SecretR(n) \in {0, 1}
          /\ SecretA(n) \in {0, 1}
          /\ SecretTheta(n) \in 0..7
          /\ n \in SeqToSet(input_nodes) => SecretA(n) = 0
          /\ n \in SeqToSet(output_nodes) => SecretR(n) = 0 /\ SecretTheta(n) = 0

\* C5: after construction and after any refresh_randomness, a is 0 on the
\* input nodes, r and theta are 0 on the output nodes, r and a are bits and
\* theta is in 0..7; r, a, a_N and theta are always whole (each enabled one
\* has a value for every node, a_N wherever a has one); with secrets=None
\* the secrets never change
C5_SecretsWithinRoles ==
    /\ []SecretsWellFormed
    /\ [][secrets = NoSecrets => secret_datas' = secret_datas]_vars

\* a client with all three secrets has run a delegation and then refreshed
\* them, and none of them is all 0
C5_Witness ==
    /\ refreshed
    /\ pc = "idle"
    /\ budget < MaxRuns
    /\ secrets = Secrets(TRUE, TRUE, TRUE)
    /\ \E n \in Nodes : SecretR(n) = 1
    /\ \E n \in Nodes : SecretA(n) = 1
    /\ \E n \in Nodes : SecretTheta(n) = 7

\* the neighbours of a node in the graph of the client, edges undirected
Neighbours(i) ==
    {j \in Nodes : \E k \in DOMAIN graph[2] : graph[2][k] \in {<<i, j>>, <<j, i>>}}

\* C6: with the a secret enabled, a_N of every node is the XOR of a over the
\* neighbours of the node, each counted once, at construction and after
\* every refresh_randomness
C6_aN_IsXorOverNeighbours ==
    Enabled("a") =>
        \A i \in Nodes :
           secret_datas.a.a_N[i] = Parity(secret_datas.a.a, Neighbours(i))

\* after a refresh on the fork, both neighbours of node 0 have a = 1
C6_Witness ==
    /\ refreshed
    /\ initial_pattern = PatFork
    /\ SecretA(1) = 1 /\ SecretA(2) = 1
    /\ SecretAN(0) = 0 /\ SecretAN(1) = 0

\* C7: the description of a measurement has the plane of the adaptive update
\* and the angle (-1)^a * corrected + theta*pi/4 + pi*(r + a_N), corrected
\* being the base angle after the update for the parities s and t of the
\* results over s_domain and t_domain; modulo 2*pi only the parity of
\* r + a_N counts (angles in units of pi/4)
C7_FinalAngle ==
    pc \in {"pattern", "test"} =>
        \A i \in DOMAIN Measurements :
           LET node == Measurements[i].node
               description == Measurements[i].arg[1]
               parameters == measurement_db[node]
               sign == IF SecretA(node) = 1 THEN -1 ELSE 1
               corrected == CorrectedAngle(parameters, results)
           IN  /\ description.plane
                     = MeasureUpdate(parameters.plane,
                                     Parity(results, parameters.s_domain) = 1,
                                     Parity(results, parameters.t_domain) = 1).new_plane
               /\ description.angle
                     = sign * corrected + SecretTheta(node)
                         + 4 * (SecretR(node) + SecretAN(node))
               /\ description.angle % 8
                     = (sign * corrected + SecretTheta(node)
                          + 4 * ((SecretR(node) + SecretAN(node)) % 2)) % 8

\* a node with a = 1, theta = 3, r = 1 and a_N = 1 was measured with its
\* s signal set
C7_Witness ==
    /\ pc = "pattern"
    /\ \E i \in DOMAIN Measurements :
          LET node == Measurements[i].node IN
          /\ SecretA(node) = 1 /\ SecretTheta(node) = 3
          /\ SecretR(node) = 1 /\ SecretAN(node) = 1
          /\ Parity(results, measurement_db[node].s_domain) = 1

\* C8: a measurement stores in results, for its node, the reported bit XOR
\* r(node), the reported bit itself when the r secret is disabled, and
\* leaves the entries of the other nodes as they were
C8_SetMeasureResult ==
    [][(Len(log') = Len(log) + 1 /\ log'[Len(log')].op = "measure") =>
          LET node == log'[Len(log')].node
              raw_bit == log'[Len(log')].arg[2]
          IN  /\ DOMAIN results' = DOMAIN results \cup {node}
              /\ results'[node] = Xor(raw_bit, SecretR(node))
              /\ ~Enabled("r") => results'[node] = raw_bit
              /\ \A n \in DOMAIN results \ {node} : results'[n] = results[n]]_vars

\* the last measurement reported 1 for a node with r = 1, stored 0, and the
\* entry of another node is 1
C8_Witness ==
    /\ pc \in {"pattern", "test"}
    /\ log # <<>>
    /\ log[Len(log)].op = "measure"
    /\ log[Len(log)].arg[2] = 1
    /\ SecretR(log[Len(log)].node) = 1
    /\ results[log[Len(log)].node] = 0
    /\ \E n \in DOMAIN results : n # log[Len(log)].node /\ results[n] = 1

\* the bits of decode_output
ZBit(node) == Xor(Parity(results, byproduct_db[node].z_domain), SecretR(node))
XBit(node) == Xor(Parity(results, byproduct_db[node].x_domain), SecretA(node))

RECURSIVE DecodingOf(_)
\* the corrections of the output nodes: Z if z_bit, then X if x_bit
DecodingOf(nodes) ==
    IF nodes = <<>> THEN <<>>
    ELSE (IF ZBit(Head(nodes)) = 1 THEN <<[op |-> "Z", node |-> Head(nodes)]>> ELSE <<>>)
         \o (IF XBit(Head(nodes)) = 1 THEN <<[op |-> "X", node |-> Head(nodes)]>> ELSE <<>>)
         \o DecodingOf(Tail(nodes))

\* C9: decode_output returns z_bit = parity of results over z_domain XOR r
\* and x_bit = parity of results over x_domain XOR a; decode_output_state
\* applies to each output node Z iff z_bit and then X iff x_bit, after
\* everything else, and to no other node
C9_DecodeOutput ==
    PatternReturned =>
        LET corrections == SelectSeq(log, LAMBDA e : e.op \in {"Z", "X"})
            before == Len(log) - Len(corrections)
        IN  /\ \A n \in SeqToSet(output_nodes) :
                  decode_output(n, results, byproduct_db, secret_datas)
                     = <<ZBit(n), XBit(n)>>
            /\ [i \in DOMAIN corrections |->
                   [op |-> corrections[i].op, node |-> corrections[i].node]]
                  = DecodingOf(output_nodes)
            /\ \A i \in 1..before : log[i].op \notin {"Z", "X"}

\* delegate_pattern has returned on the line after a Z and then an X on its
\* output node, whose a is 1
C9_Witness ==
    /\ PatternReturned
    /\ initial_pattern = PatLine
    /\ SecretA(2) = 1
    /\ Len(log) >= 2
    /\ log[Len(log) - 1].op = "Z" /\ log[Len(log) - 1].node = 2
    /\ log[Len(log)].op = "X" /\ log[Len(log)].node = 2

\* C10: a delegation finds the results empty when it starts
C10_ResultsEmptyAtStart ==
    pc \in {"pattern", "test"} => results_at_start = EmptyDict

\* the logical bit the first measurement of node in the delegation in
\* progress recorded
FirstRecorded(node) ==
    LET first == CHOOSE k \in DOMAIN log :
                    /\ log[k].op = "measure" /\ log[k].node = node
                    /\ \A m \in 1..(k - 1) : ~(log[m].op = "measure" /\ log[m].node = node)
    IN  IF Enabled("r") THEN Xor(log[first].arg[2], SecretR(node)) ELSE log[first].arg[2]

\* C11: within one delegation the results store is write-once per node: a
\* second set_measure_result for a node the run has written already fails
\* with DuplicateResultWrite and leaves the value the first write stored.
C11_ResultsWriteOnce ==
    \A k \in DOMAIN log :
       log[k].op = "set_measure_result" =>
          /\ outcome.status = "DuplicateResultWrite"
          /\ results[log[k].node] = FirstRecorded(log[k].node)

\* C12: get_measure_result of the client's measure method fails for every
\* node and in every state, whether or not the node has a recorded result:
\* the call raises, hands back no value, and changes neither the results
\* store nor the secrets.
C12_GetMeasureResultFails ==
    [][(outcome'.call = "get_measure_result" /\ outcome.call # "get_measure_result")
          => /\ outcome'.status = "ValueError"
             /\ outcome'.value = <<>>
             /\ results' = results
             /\ secret_datas' = secret_datas]_vars

\* get_measure_result has been called between two delegations for a node
\* whose result is recorded, with the r secret in use
C12_Witness ==
    /\ pc = "returned"
    /\ outcome.call = "get_measure_result"
    /\ Len(log) = 1
    /\ log[1].node \in DOMAIN results
    /\ Enabled("r")

\* C18: decode_output for an output node whose z_domain and x_domain hold a
\* node without an outcome of the delegation in progress fails; the decoding
\* bits never come from a missing outcome or from the outcome of an earlier
\* delegation.  Between two delegations no delegation is in progress.
C18_DecodeNeedsOutcomesOfTheRun ==
    (/\ outcome.call = "decode_output"
     /\ (byproduct_db[log[1].node].z_domain \cup byproduct_db[log[1].node].x_domain) # {})
        => outcome.status # "returned"


\* the operators blind_qubits applied to node, in the order of the log
BlindingOf(node) ==
    SelectSeq(log, LAMBDA e : e.op \in {"x_blind", "z_rotation"} /\ e.node = node)

\* C20: blind_qubits visits every node of the graph; a node gets the bit
\* flip iff its a is 1 and the rotation by theta*pi/4 iff its theta is not
\* 0, the flip strictly before the rotation when it gets both, and a node
\* with a = 0 and theta = 0 gets no operator.
C20_BlindQubitsFlipThenRotate ==
    pc \in {"pattern", "test"} =>
       \A node \in Nodes :
          BlindingOf(node) =
             (IF SecretA(node) = 1
              THEN <<[op |-> "x_blind", node |-> node, arg |-> 1]>> ELSE <<>>)
             \o (IF SecretTheta(node) # 0
                 THEN <<[op |-> "z_rotation", node |-> node, arg |-> SecretTheta(node)]>>
                 ELSE <<>>)

\* a delegation in progress in which one node got the flip and the rotation
\* and another node got no operator
C20_Witness ==
    /\ pc \in {"pattern", "test"}
    /\ \E node \in Nodes : Len(BlindingOf(node)) = 2
    /\ \E node \in Nodes : SecretA(node) = 0 /\ SecretTheta(node) = 0
                           /\ BlindingOf(node) = <<>>

\* merge_pauli_list is executing
InMerge == pc \in {"while merged", "while i", "while j", "if not merged"}

\* the nodes of the traps of a canvas
TrapNodes(c) == UNION {c.traps_list[k] : k \in DOMAIN c.traps_list}

\* C13: for any graph and any proper colouring, merge_pauli_list on the
\* canonical single-node stabilizers of one non-empty colour class, in any
\* order, terminates, and it returns with exactly one stabilizer left in the
\* list, the one it returns.
C13_MergeOfColourClassConverges ==
    /\ InMerge ~> (pc = "generate_coins_dummies")
    /\ [](pc = "generate_coins_dummies" =>
             /\ Len(trappified_canvas.trap_stabilizers) = 1
             /\ trappified_canvas.stabilizer = trappified_canvas.trap_stabilizers[1])

\* merge_pauli_list has returned for a colour class of two nodes with a
\* common neighbour, listed in descending order
C13_Witness ==
    /\ pc = "generate_coins_dummies"
    /\ trappified_canvas.caller = "colour class"
    /\ Len(trappified_canvas.traps_list) = 2
    /\ trappified_canvas.traps_list[1] = {2}
    /\ \E q \in DOMAIN trappified_canvas.stabilizer.paulis :
          trappified_canvas.stabilizer.paulis[q] = "Z"

\* two stabilizers of the list carry different non-identity letters on a node
Incompatible(pauli_list) ==
    \E k, m \in DOMAIN pauli_list :
       \E q \in DOMAIN pauli_list[k].paulis :
          /\ pauli_list[k].paulis[q] # "I"
          /\ pauli_list[m].paulis[q] # "I"
          /\ pauli_list[k].paulis[q] # pauli_list[m].paulis[q]

\* C14: when merge_pauli_list holds more than one stabilizer and two of them
\* are incompatible, it ends by failing with UnmergeableStabilizers and
\* returns no stabilizer, before any merge as well as after earlier merges.
C14_IncompatibleStabilizersFail ==
    /\ [](pc = "generate_coins_dummies" =>
             ~Incompatible(trappified_canvas.trap_stabilizers))
    /\ (InMerge /\ Incompatible(frame.pauli_list)) ~> (pc = "UnmergeableStabilizers")

\* merge_pauli_list returns to its caller
MergePauliListReturns == InMerge ~> ~InMerge

\* the coin equation of the trap nodes of a canvas, and the drawn bits of
\* the other nodes
CoinParity(c) ==
    /\ \A t \in TrapNodes(c) :
          Xor(c.coins[t], Parity(c.coins, neighbors(c.graph, t))) = 0
    /\ \A n \in SeqToSet(c.graph.nodes) \ TrapNodes(c) :
          c.coins[n] \in {0, 1} /\ c.coins[n] = c.dummies_coins[n]

\* C15: in every built TrappifiedCanvas, coin(t) XOR the XOR of the coins
\* of the neighbours of t is 0 for every trap node t, and every node that is
\* no trap node holds the bit drawn for it.
C15_CoinParity ==
    /\ pc = "canvas built" => CoinParity(trappified_canvas)
    /\ \A k \in DOMAIN test_runs : CoinParity(test_runs[k])

\* a built canvas with a trap node whose coin is 1
C15_Witness ==
    /\ pc = "canvas built"
    /\ \E t \in TrapNodes(trappified_canvas) : trappified_canvas.coins[t] = 1

\* the canvases of runs whose traps hold node
CanvasesOf(node) ==
    {k \in DOMAIN test_runs : \E m \in DOMAIN test_runs[k].traps_list :
                                 node \in test_runs[k].traps_list[m]}

\* C16: create_test_runs returns one canvas per colour of a proper
\* colouring of the graph: every node of the graph, isolated or not, is a
\* single-node trap of exactly one canvas, and in a canvas the traps are
\* pairwise disjoint and no two trap nodes are adjacent.
C16_TestRunsAreAProperColouring ==
    pc = "return runs" =>
       /\ \A node \in Nodes :
             /\ Cardinality(CanvasesOf(node)) = 1
             /\ \A k \in CanvasesOf(node) :
                   Cardinality({m \in DOMAIN test_runs[k].traps_list :
                                   test_runs[k].traps_list[m] = {node}}) = 1
       /\ \A k \in DOMAIN test_runs :
             LET traps_list == test_runs[k].traps_list IN
             /\ traps_list # <<>>
             /\ \A m \in DOMAIN traps_list :
                   Cardinality(traps_list[m]) = 1 /\ traps_list[m] \subseteq Nodes
             /\ \A m, n \in DOMAIN traps_list :
                   m # n => traps_list[m] \cap traps_list[n] = {}
             /\ Independent(ClientGraph, TrapNodes(test_runs[k]))

\* create_test_runs has returned two canvases for a graph with an edge and
\* an isolated node
C16_Witness ==
    /\ pc = "return runs"
    /\ Len(test_runs) = 2
    /\ \E node \in Nodes : neighbors(ClientGraph, node) = {}
    /\ \E node \in Nodes : neighbors(ClientGraph, node) # {}

\* the letter of node q in the stabilizer of a canvas with single-node traps
ExpectedLetter(c, q) ==
    IF q \in TrapNodes(c) THEN "X"
    ELSE IF \E t \in TrapNodes(c) : q \in neighbors(c.graph, t) THEN "Z"
    ELSE "I"

\* C19: for a canvas whose traps are the single nodes of one colour class,
\* the merged stabilizer has sign + and carries X on every trap node, Z on
\* every neighbour of a trap node and the identity elsewhere: no Y, and no
\* trap node overwritten with Z.
C19_MergedStabilizerShape ==
    pc \in {"generate_coins_dummies", "generate_coins_trap_qubits",
            "generate_eigenstate", "canvas built"} =>
       /\ trappified_canvas.stabilizer.sign = 1
       /\ \A q \in DOMAIN trappified_canvas.stabilizer.paulis :
             trappified_canvas.stabilizer.paulis[q]
                = ExpectedLetter(trappified_canvas, q)

\* a canvas is built whose stabilizer was merged from the stabilizers of two
\* traps and carries X on both and Z on their neighbour
C19_Witness ==
    /\ pc = "canvas built"
    /\ Len(trappified_canvas.traps_list) = 2
    /\ {trappified_canvas.stabilizer.paulis[q] :
           q \in DOMAIN trappified_canvas.stabilizer.paulis} = {"X", "Z"}

\* the canvas built statement by statement is one of the canvases of the
\* operator TrappifiedCanvas used by the delegations
StepwiseCanvasIsOperatorCanvas ==
    pc = "canvas built" =>
       [traps_list |-> trappified_canvas.traps_list,
        stabilizer |-> trappified_canvas.stabilizer,
        coins |-> trappified_canvas.coins,
        states |-> trappified_canvas.states]
          \in TrappifiedCanvas(trappified_canvas.graph, trappified_canvas.traps_list)

\* the nodes whose reported bit the noise has flipped in the run
ConfusedNodes == {Confused[k].node : k \in DOMAIN Confused}

FlipOutsideTheTrapsReached ==
    /\ TestRunReturned
    /\ outcome.status = "returned"
    /\ ConfusedNodes # {}
    /\ \A k \in DOMAIN outcome.value : outcome.value[k] = 0

\* the phase of delegate_pattern a backend operation belongs to: 1 the
\* preparation, 2 the blinding, 3 the run of the clean pattern, 4 the decoding
PhaseOf(e) ==
    CASE e.op = "add_node" -> 1
      [] e.op \in {"x_blind", "z_rotation"} -> 2
      [] e.op \in {"E", "measure"} -> 3
      [] e.op \in {"Z", "X"} -> 4
      [] OTHER -> 0

\* the operations of the log that belong to a phase
OfPhase(phase) == SelectSeq(log, LAMBDA e : PhaseOf(e) = phase)

\* the commands the simulator has executed are the first commands of the
\* clean pattern, in its order
ExecutedIsPrefixOfCleanPattern ==
    LET executed == OfPhase(3) IN
    /\ Len(executed) = IF pc = "returned" THEN Len(clean_pattern.seq) ELSE ip - 1
    /\ \A k \in DOMAIN executed :
          LET cmd == clean_pattern.seq[k] IN
          IF cmd.kind = "E"
          THEN executed[k].op = "E" /\ <<executed[k].node, executed[k].arg>> = cmd.nodes
          ELSE executed[k].op = "measure" /\ executed[k].node = cmd.node

\* a single-qubit operator applied to a single-qubit state
ApplyLocal(op, st) ==
    <<ZAdd(ZMul(op[1][1], st[1]), ZMul(op[1][2], st[2])),
      ZAdd(ZMul(op[2][1], st[1]), ZMul(op[2][2], st[2]))>>

\* the state of the k-th node of `order` in a test run: its canvas state
\* after the flip (if a = 1) and the rotation by theta (if theta is not 0)
BlindedCanvasState(order, k) ==
    LET flipped == IF SecretA(order[k]) = 1
                   THEN ApplyLocal(OpsX, run[1].states[k]) ELSE run[1].states[k]
    IN  IF SecretTheta(order[k]) # 0
        THEN ApplyLocal(z_rotation(SecretTheta(order[k])), flipped) ELSE flipped

\* the product state of the blinded canvas states over the sorted nodes
BlindedCanvas ==
    LET order == SortedSeq(Nodes)
        amplitude(i) ==
            LET prod[k \in 0..Len(order)] ==
                    IF k = 0 THEN ZOne
                    ELSE ZMul(prod[k - 1], BlindedCanvasState(order, k)[Bit(i, k) + 1])
            IN  prod[Len(order)]
    IN  [nodes |-> order,
         psi   |-> [i \in 0..(Pow2(Len(order)) - 1) |-> amplitude(i)]]

\* C21: in delegate_pattern every node is prepared once (an output node in
\* PLUS or MINUS by r XOR a_N) before any blinding operator, the blinding
\* operators come before the first command of the clean pattern, the
\* commands executed are those of the clean pattern in its order, and the
\* decoding comes after the result of the last measurement is recorded.  In
\* delegate_test_run the executor receives the canvas states already blinded,
\* executes the same commands, and no decoding correction is applied.
C21_PhasesInOrder ==
    (pc \in {"pattern", "test"} \/ PatternReturned \/ TestRunReturned) =>
        /\ \A i, j \in DOMAIN log : i < j => PhaseOf(log[i]) <= PhaseOf(log[j])
        /\ \A i \in DOMAIN log : PhaseOf(log[i]) # 0
        /\ ExecutedIsPrefixOfCleanPattern
        /\ outcome.call = "delegate_pattern" =>
              /\ Len(OfPhase(1)) = Len(nodes_list)
              /\ {OfPhase(1)[k].node : k \in DOMAIN OfPhase(1)} = Nodes
              /\ \A k \in DOMAIN OfPhase(1) :
                    OfPhase(1)[k].node \in SeqToSet(output_nodes) =>
                       OfPhase(1)[k].arg =
                          (IF Xor(SecretR(OfPhase(1)[k].node),
                                  SecretAN(OfPhase(1)[k].node)) = 0
                           THEN PLUS ELSE MINUS)
              /\ OfPhase(4) # <<>> =>
                    /\ pc = "returned"
                    /\ \A k \in DOMAIN clean_pattern.seq :
                          clean_pattern.seq[k].kind = "M" =>
                             clean_pattern.seq[k].node \in DOMAIN results
        /\ outcome.call = "delegate_test_run" =>
              /\ OfPhase(1) = <<>>
              /\ OfPhase(4) = <<>>
              /\ (pc = "test" /\ ip = 1) => backend = BlindedCanvas

\* delegate_pattern has returned on the line after all four phases: its
\* output node was prepared in MINUS, a node was flipped, and the output was
\* decoded
C21_Witness ==
    /\ PatternReturned
    /\ initial_pattern = PatLine
    /\ \E i \in DOMAIN log : log[i].op = "add_node" /\ log[i].node = 2 /\ log[i].arg = MINUS
    /\ OfPhase(2) # <<>>
    /\ OfPhase(4) # <<>>

\* a test run is about to execute its first command on a canvas that was
\* flipped and rotated by the client
TestRunOnBlindedCanvasReached ==
    /\ pc = "test"
    /\ ip = 1
    /\ \E i \in DOMAIN log : log[i].op = "x_blind"
    /\ \E i \in DOMAIN log : log[i].op = "z_rotation"

\* the measurement table recorded at construction
MeasurementTableOfSource == measurement_db = measurement_db_of(initial_pattern)

\* C22: delegate_test_run leaves the measurement table as it found it: after
\* any sequence of delegate_test_run and delegate_pattern calls, between the
\* calls and in a delegate_pattern in progress, the plane, angle, s_domain
\* and t_domain of every node are those of the source pattern.
C22_MeasurementTableRestored ==
    pc \in {"idle", "pattern"} => MeasurementTableOfSource

\* the same for the clients whose pattern measures every node, whose test
\* runs find an outcome for every trap
MeasurementTableRestoredWhenAllMeasured ==
    (pc \in {"idle", "pattern"} /\ output_nodes = <<>>) => MeasurementTableOfSource

\* a delegate_pattern is in progress after an earlier delegation of the
\* client, on a pattern that measures every node
PatternAfterDelegationReached ==
    /\ pc = "pattern"
    /\ budget = MaxRuns - 2
    /\ output_nodes = <<>>
    /\ \E n \in DOMAIN measurement_db : measurement_db[n] # DefaultM(n)
    /\ DOMAIN results_at_start # {}

\* C23: in delegate_test_run the description of every measurement has the
\* plane XY and the angle theta*pi/4 + pi*(r + a_N) of its node (angles in
\* units of pi/4): the base angle, the plane and the domains of the source
\* pattern and the results recorded so far have no part in it.
C23_TestRunMeasurements ==
    pc = "test" =>
        \A i \in DOMAIN Measurements :
           LET node == Measurements[i].node
               description == Measurements[i].arg[1]
           IN  /\ description.plane = "XY"
               /\ description.angle
                     = SecretTheta(node) + 4 * (SecretR(node) + SecretAN(node))

\* the measurement table recorded at construction, whatever the table holds
SourceParameters(node) == measurement_db_of(initial_pattern)[node]

\* a test run has measured a node whose source measurement has a base angle
\* and an s_domain of recorded parity 1, under a theta secret that is not 0
C23_Witness ==
    /\ pc = "test"
    /\ \E i \in DOMAIN Measurements :
          LET node == Measurements[i].node IN
          /\ SourceParameters(node).angle # 0
          /\ SourceParameters(node).s_domain \subseteq DOMAIN results
          /\ Parity(results, SourceParameters(node).s_domain) = 1
          /\ SecretTheta(node) # 0

\* a test run has measured a node that the source pattern measures in the
\* YZ plane
TestRunOnYZNodeReached ==
    /\ pc = "test"
    /\ \E i \in DOMAIN Measurements : SourceParameters(Measurements[i].node).plane = "YZ"

\* the correction commands of a kind on a node, in the order of the pattern
CorrectionsOn(pattern, node, kind) ==
    SelectSeq(pattern.seq, LAMBDA cmd : cmd.kind = kind /\ cmd.node = node)

\* the domain of the correction all the commands of a kind on a node amount
\* to: the operator is applied once per command whose domain has parity 1,
\* so a measured node counts iff it is in an odd number of the domains
DomainOfAll(pattern, node, kind) ==
    LET cmds == CorrectionsOn(pattern, node, kind) IN
    {j \in UNION {cmds[k].domain : k \in DOMAIN cmds} :
        Cardinality({k \in DOMAIN cmds : j \in cmds[k].domain}) % 2 = 1}

\* the byproduct database the source pattern determines
ByproductDbOfSource ==
    /\ DOMAIN byproduct_db = SeqToSet(output_nodes)
    /\ \A node \in SeqToSet(output_nodes) :
          /\ byproduct_db[node].x_domain = DomainOfAll(initial_pattern, node, "X")
          /\ byproduct_db[node].z_domain = DomainOfAll(initial_pattern, node, "Z")

\* C24: at construction and after any refresh_randomness, delegate_pattern
\* and delegate_test_run, the byproduct database has one entry per output
\* node and no other entry, whose x_domain and z_domain are the domains all
\* the X and all the Z commands of the pattern on that node amount to (empty
\* without such a command).
C24_ByproductDb == ByproductDbOfSource

\* no output node has two correction commands of the same kind
SingleCorrections ==
    \A node \in SeqToSet(output_nodes) : \A kind \in {"X", "Z"} :
       Len(CorrectionsOn(initial_pattern, node, kind)) <= 1

\* the same for the patterns with at most one X and one Z command on each
\* output node
ByproductDbOfSingleCorrections == SingleCorrections => ByproductDbOfSource

\* what the code keeps: the domain of the last command of the kind on the node
ByproductDbKeepsLastCommand ==
    /\ DOMAIN byproduct_db = SeqToSet(output_nodes)
    /\ \A node \in SeqToSet(output_nodes) :
          LET xs == CorrectionsOn(initial_pattern, node, "X")
              zs == CorrectionsOn(initial_pattern, node, "Z")
          IN  /\ byproduct_db[node].x_domain
                    = IF xs = <<>> THEN {} ELSE xs[Len(xs)].domain
              /\ byproduct_db[node].z_domain
                    = IF zs = <<>> THEN {} ELSE zs[Len(zs)].domain

\* no operation of the client writes the byproduct database
ByproductDbNeverModified == [][byproduct_db' = byproduct_db]_vars

\* delegate_pattern has returned, after a refresh of the secrets, on a
\* pattern with a correction on the measured node 1 and one X and one Z
\* command on the output node
SingleCorrectionsReached ==
    /\ PatternReturned
    /\ refreshed
    /\ SingleCorrections
    /\ CorrectionsOn(initial_pattern, 1, "X") # <<>>
    /\ byproduct_db[2].x_domain # {}
    /\ byproduct_db[2].z_domain # {}

\* the delegated run and the direct run agree on the patterns whose
\* corrections are single and on output nodes only
DelegatedEqualsDirectForSingleCorrections ==
    (/\ PatternReturned
     /\ SingleCorrections
     /\ CorrectionsOn(initial_pattern, 1, "X") = <<>>)
        => SameState(backend, DirectOutput(initial_pattern, input_state, results),
                     output_nodes)

\* the delegated run and the direct run agree on the patterns whose
\* corrections are on output nodes only
DelegatedEqualsDirectForOutputCorrections ==
    (PatternReturned /\ CorrectionsOn(initial_pattern, 1, "X") = <<>>)
        => SameState(backend, DirectOutput(initial_pattern, input_state, results),
                     output_nodes)

=============================================================================
